---- MODULE Spec2Model ----
(***************************************************************************)
(* Model of the DBDocumenter conversational engine:                        *)
(*   - DirectOpenAIAgent (src/src/agent.py): conversation history, trim,   *)
(*     the function-calling loop of run;                                   *)
(*   - DuckDBRuntime (src/src/server/runtime.py): _sanitize_history, the   *)
(*     chat operations, the two asyncio locks and the worker threads that  *)
(*     execute agent.run.                                                  *)
(***************************************************************************)
EXTENDS Integers, Sequences, FiniteSets, TLC

(***************************************************************************)
(* Bounds                                                                  *)
(***************************************************************************)
\* max_history_messages of the agent (20 in create_duckdb_agent), scaled down
MaxHistory == 3
\* max_iterations of the agent (agent_max_steps, 8 by default), scaled down
MaxIterations == 3
\* largest number of tool calls in one model response
MaxCalls == 2
\* total number of tool calls the provider requests in one behaviour
MaxIds == 3
\* number of chat requests served in one behaviour of the engine
MaxRuns == 2
\* longest message list given to _sanitize_history in SpecSanitize
MaxLen == 4
\* number of distinct tool-call ids in those message lists
MaxSanIds == 2

\* max_retries of the rate-limit loop in run
max_retries == 3

(***************************************************************************)
(* Message model                                                           *)
(***************************************************************************)
NoId == 0
Ids == 1..MaxIds

SystemPrompt == "system_prompt"
LostContent == "Error: Tool execution was interrupted or response was lost."
CancelledAnswer == "Operation cancelled by user."
MaxIterAnswer == "Maximum iterations reached without completion."

Call(id, name, arguments) == [id |-> id, name |-> name, arguments |-> arguments]

Message(role, content, tool_calls, tool_call_id) ==
    [role |-> role, content |-> content, tool_calls |-> tool_calls,
     tool_call_id |-> tool_call_id]

SystemMessage == Message("system", SystemPrompt, <<>>, NoId)
UserMessage(text) == Message("user", text, <<>>, NoId)
AssistantMessage(content, tool_calls) == Message("assistant", content, tool_calls, NoId)
\* ToolMessage losing the id of the call it answers
ToolMessageWithoutId(id, content) == Message("tool", content, <<>>, NoId)
ToolMessage(id, content) == Message("tool", content, <<>>, id)

(***************************************************************************)
(* Sequence helpers                                                        *)
(***************************************************************************)
Range(s) == {s[i] : i \in 1..Len(s)}

Last(s, n) == IF Len(s) <= n THEN s ELSE SubSeq(s, Len(s) - n + 1, Len(s))

RECURSIVE Without(_, _)
Without(s, x) ==
    IF s = <<>> THEN <<>>
    ELSE IF Head(s) = x THEN Without(Tail(s), x)
         ELSE <<Head(s)>> \o Without(Tail(s), x)

SystemOf(h) == SelectSeq(h, LAMBDA m : m.role = "system")
NonSystemOf(h) == SelectSeq(h, LAMBDA m : m.role # "system")

(***************************************************************************)
(* DuckDBRuntime._sanitize_history                                         *)
(***************************************************************************)
\* the synthesized tool messages closing the pending ids, in dict order
RECURSIVE LostMessages(_)
LostMessages(pending) ==
    IF pending = <<>> THEN <<>>
    ELSE <<ToolMessage(Head(pending), LostContent)>> \o LostMessages(Tail(pending))

\* pending_tool_calls[tc_id] = tc for each call; a dict keeps the first
\* insertion position of a key, and a falsy id is skipped
RECURSIVE AddPending(_, _)
AddPending(pending, tool_calls) ==
    IF tool_calls = <<>> THEN pending
    ELSE LET id == Head(tool_calls).id
         IN  AddPending(IF id = NoId \/ id \in Range(pending)
                           THEN pending ELSE Append(pending, id),
                        Tail(tool_calls))

\* SanitizeStep without the branch in which a tool message closes its call
SanitizeStepKeepsOpen(acc, msg) ==
    LET closing == acc.pending # <<>> /\ msg.role # "tool"
        before == IF closing THEN acc.sanitized \o LostMessages(acc.pending)
                  ELSE acc.sanitized
        pending == IF closing THEN <<>> ELSE acc.pending
    IN  [sanitized |-> Append(before, msg),
         pending |->
            IF msg.role = "assistant" /\ msg.tool_calls # <<>>
               THEN AddPending(pending, msg.tool_calls)
            ELSE pending]

\* one iteration of the for loop over history; acc = [sanitized, pending]
SanitizeStep(acc, msg) ==
    LET closing == acc.pending # <<>> /\ msg.role # "tool"
        before == IF closing THEN acc.sanitized \o LostMessages(acc.pending)
                  ELSE acc.sanitized
        pending == IF closing THEN <<>> ELSE acc.pending
    IN  [sanitized |-> Append(before, msg),
         pending |->
            IF msg.role = "assistant" /\ msg.tool_calls # <<>>
               THEN AddPending(pending, msg.tool_calls)
            ELSE IF msg.role = "tool"
               THEN Without(pending, msg.tool_call_id)
            ELSE pending]

RECURSIVE SanitizeLoop(_, _)
SanitizeLoop(acc, history) ==
    IF history = <<>> THEN acc
    ELSE SanitizeLoop(SanitizeStep(acc, Head(history)), Tail(history))

\* _sanitize_history without the loop that closes what is open at the end
SanitizeWithoutTail(history) ==
    SanitizeLoop([sanitized |-> <<>>, pending |-> <<>>], history).sanitized

_sanitize_history(history) ==
    LET acc == SanitizeLoop([sanitized |-> <<>>, pending |-> <<>>], history)
    IN  acc.sanitized \o LostMessages(acc.pending)

(***************************************************************************)
(* DirectOpenAIAgent._trim_conversation_history                            *)
(***************************************************************************)
_trim_conversation_history(history) ==
    IF Len(history) <= MaxHistory + 1 THEN history
    ELSE SystemOf(history) \o Last(NonSystemOf(history), MaxHistory)

(***************************************************************************)
(* State                                                                   *)
(***************************************************************************)
VARIABLES
    conversation_history,  \* agent.conversation_history
    cancelled,             \* agent._cancelled
    pc,                    \* position of the chat request and of agent.run in it
    request,               \* arguments of the chat request being served
    iteration,             \* loop variable of the function-calling loop
    retry_count,           \* retry_count of the current model submission
    todo,                  \* message.tool_calls still to be dispatched
    result,                \* what run returned or raised
    beforeTrim,            \* history as it was when the last trim started
    sessions,              \* chat_history_manager: session id -> stored messages
    nextId,                \* next tool-call id the provider hands out
    runs,                  \* chat requests served so far
    api_calls,             \* api_calls of the current run
    tools_used,            \* tools_used of the current run (the call ids)
    execution_metadata,    \* agent.execution_metadata
    reply,                 \* what the last finished chat request delivered
    san_history,           \* argument given to _sanitize_history
    san_once,              \* _sanitize_history(san_history)
    san_twice,             \* _sanitize_history applied to that result
    san_stage,             \* how many times it has been applied
    agent_created,         \* runtime._agent is not None
    op,                    \* coordinator operation each request task executes
    at,                    \* position of each request task in its operation
    outcome,               \* how the task's last agent.run thread ended
    threads,               \* requests whose agent.run worker thread is running
    agent_run_lock,        \* holder of runtime._agent_run_lock
    query_lock,            \* holder of runtime._query_lock
    current_database,      \* agent.duckdb_tool.current_database
    pointer_write,         \* the last write of current_database
    buffer_write,          \* the last write of conversation_history
    clock,                 \* time since a streaming request's agent.run was started
    _agent,                \* runtime._agent: the instance, or none
    agent_init_lock,       \* holder of runtime._agent_init_lock
    ensure_at,             \* position of each task in _ensure_agent
    ensure_got,            \* what _ensure_agent returned to each task
    ensure_calls,          \* calls of _ensure_agent made so far
    creations,             \* completed calls of create_duckdb_agent
    post_answer,           \* the model's final answer before post-processing
    post_trace,            \* tools_used of the run, with what each call gave
    post_history,          \* what conversation_history holds besides: an earlier chart, trimming
    post_once,             \* the answer after post-processing
    post_twice,            \* that result post-processed again
    post_stage,            \* how many times post-processing has been applied
    persist_input,         \* arguments of the chat request whose message is stored
    persist_content,       \* content of the user message agent.run appended
    persist_stored,        \* content of the ChatMessage saved for it
    persist_stage,         \* 0 request made, 1 message appended, 2 session saved
    worker,                \* the thread of the streamed agent.run
    emitted,               \* status messages the progress callback was called with
    ready,                 \* callbacks the thread handed to the event loop, in order
    status_queue,          \* status_queue of run_chat_stream
    queue_task,            \* the task awaiting status_queue.get()
    agent_task_done,       \* agent_task.done()
    gen,                   \* position of the run_chat_stream generator
    events,                \* what the generator has yielded
    files,                 \* the session files of the project directory, by session id
    time,                  \* time.time()
    last_save              \* the last call of save_session: arguments, id returned

engineVars == <<conversation_history, cancelled, pc, request, iteration,
                retry_count, todo, result, beforeTrim, sessions, nextId, runs,
                api_calls, tools_used, execution_metadata, reply>>
sanVars == <<san_history, san_once, san_twice, san_stage>>
coordVars == <<agent_created, op, at, outcome, threads, agent_run_lock, query_lock,
               current_database, pointer_write, buffer_write, clock>>
ensureVars == <<_agent, agent_init_lock, ensure_at, ensure_got, ensure_calls, creations>>
postVars == <<post_answer, post_trace, post_history, post_once, post_twice, post_stage>>
persistVars == <<persist_input, persist_content, persist_stored, persist_stage>>
streamVars == <<worker, emitted, ready, status_queue, queue_task, agent_task_done,
                gen, events>>
storeVars == <<files, time, last_save>>
restVars == <<ensureVars, postVars, persistVars, streamVars, storeVars>>
outsideEngine == <<sanVars, coordVars, restVars>>
vars == <<engineVars, sanVars, coordVars, restVars>>

(***************************************************************************)
(* Session store (ChatHistoryManager) and the conversions around it        *)
(***************************************************************************)
NoSession == "none"
SessionIds == {"s1", "s2"}
NoStored == [exists |-> FALSE, messages |-> <<>>]

PlainPrompt == "prompt"
EnhancedPrompt == "[Context: project]\n\nprompt"

\* the "[Context: ...]\n\n" prefix of a user message is cut off before saving
StripContext(m) ==
    IF m.role = "user" /\ m.content = EnhancedPrompt THEN PlainPrompt ELSE m.content

\* the ChatMessage list the chat operations build from the history
RECURSIVE SessionMessages(_)
SessionMessages(history) ==
    IF history = <<>> THEN <<>>
    ELSE LET m == Head(history)
         IN  IF m.role = "system" THEN SessionMessages(Tail(history))
             ELSE <<Message(m.role, StripContext(m), m.tool_calls, m.tool_call_id)>>
                  \o SessionMessages(Tail(history))

get_session(session_id) ==
    IF session_id \in SessionIds THEN sessions[session_id] ELSE NoStored

FreeSessionIds == {s \in SessionIds : ~sessions[s].exists}

\* SavedId storing under the supplied id whenever one is supplied
SavedIdAsSupplied(session_id) ==
    IF session_id \in SessionIds THEN session_id
    ELSE CHOOSE s \in FreeSessionIds : TRUE

\* the id save_session stores under: the existing session's, or a newly
\* generated one (time and random bytes), which is no id seen before
SavedId(session_id) ==
    IF get_session(session_id).exists THEN session_id
    ELSE CHOOSE s \in FreeSessionIds \ {session_id} : TRUE

save_session(messages, session_id) ==
    [sessions EXCEPT ![SavedId(session_id)] = [exists |-> TRUE, messages |-> messages]]

\* a save can be modelled when the session exists or an unused id is left
\* for the new session
CanSave(session_id) ==
    get_session(session_id).exists \/ FreeSessionIds \ {session_id} # {}

\* nothing delivered yet
NoReply == [type |-> "none", session_id |-> NoSession]

\* MetadataIterations reporting the zero-based loop variable
MetadataIterationsZeroBased(last) == last

\* the "iterations" entry of execution_metadata; last is the loop variable
\* as the for statement left it
MetadataIterations(last) ==
    IF last < MaxIterations THEN last + 1 ELSE MaxIterations

\* execution_metadata as the code after the loop stores it
Metadata(last, calls, used) ==
    [iterations |-> MetadataIterations(last), api_calls |-> calls,
     tools_used |-> used]

\* execution_metadata = {} of __init__
NoMetadata == [iterations |-> 0, api_calls |-> 0, tools_used |-> <<>>]

(***************************************************************************)
(* Chat request, coordinator side: DuckDBRuntime.run_chat, run_chat_stream *)
(***************************************************************************)
ChatKinds == {"run_chat", "run_chat_stream"}

\* restored_history: the dicts rebuilt from the stored ChatMessages
RestoredHistory(stored) ==
    [i \in 1..Len(stored) |->
        Message(stored[i].role, stored[i].content, stored[i].tool_calls,
                stored[i].tool_call_id)]

\* ChatBegin giving a request without a stored session an empty conversation
ChatBeginFresh(kind, reset, session_id) ==
    /\ pc = "idle"
    /\ runs < MaxRuns
    /\ CanSave(session_id)
    /\ request' = [kind |-> kind, reset |-> reset, session_id |-> session_id,
                   retried |-> FALSE]
    /\ conversation_history' =
          IF session_id # NoSession /\ ~reset /\ get_session(session_id).exists
             THEN _sanitize_history(RestoredHistory(get_session(session_id).messages))
             ELSE <<>>
    /\ pc' = "prepared"
    /\ UNCHANGED <<cancelled, iteration, retry_count, todo, result, beforeTrim,
                   sessions, nextId, runs>>
    /\ reply' = NoReply
    /\ UNCHANGED <<api_calls, tools_used, execution_metadata>>
    /\ UNCHANGED outsideEngine

\* up to the call of agent.run: the stored session is restored and sanitized
ChatBegin(kind, reset, session_id) ==
    /\ pc = "idle"
    /\ runs < MaxRuns
    /\ CanSave(session_id)
    /\ request' = [kind |-> kind, reset |-> reset, session_id |-> session_id,
                   retried |-> FALSE]
    /\ conversation_history' =
          IF session_id # NoSession /\ ~reset /\ get_session(session_id).exists
             THEN _sanitize_history(RestoredHistory(get_session(session_id).messages))
             ELSE conversation_history
    /\ pc' = "prepared"
    /\ UNCHANGED <<cancelled, iteration, retry_count, todo, result, beforeTrim,
                   sessions, nextId, runs>>
    /\ reply' = NoReply
    /\ UNCHANGED <<api_calls, tools_used, execution_metadata>>
    /\ UNCHANGED outsideEngine

(***************************************************************************)
(* DirectOpenAIAgent.run                                                   *)
(***************************************************************************)
\* lines 288-324: reset, system message if the history is empty, user message
StartHistory(history, reset) ==
    LET cleared == IF reset THEN <<>> ELSE history
        seeded == IF cleared = <<>> THEN <<SystemMessage>> ELSE cleared
    IN  Append(seeded, UserMessage(EnhancedPrompt))

\* RunBegin starting every run with a cleared cancellation flag
RunBeginClearsFlag ==
    /\ pc = "prepared"
    /\ conversation_history' = StartHistory(conversation_history, request.reset)
    /\ iteration' = 0
    /\ pc' = "loop"
    /\ cancelled' = FALSE
    /\ UNCHANGED <<request, retry_count, todo, result, beforeTrim,
                   sessions, nextId, runs>>
    /\ api_calls' = 0
    /\ tools_used' = <<>>
    /\ UNCHANGED <<execution_metadata, reply>>
    /\ UNCHANGED outsideEngine

RunBegin ==
    /\ pc = "prepared"
    /\ conversation_history' = StartHistory(conversation_history, request.reset)
    /\ iteration' = 0
    /\ pc' = "loop"
    /\ UNCHANGED <<cancelled, request, retry_count, todo, result, beforeTrim,
                   sessions, nextId, runs>>
    /\ api_calls' = 0
    /\ tools_used' = <<>>
    /\ UNCHANGED <<execution_metadata, reply>>
    /\ UNCHANGED outsideEngine

\* agent.cancel(), callable at any time from outside the loop
Cancel ==
    /\ ~cancelled
    /\ cancelled' = TRUE
    /\ UNCHANGED <<conversation_history, pc, request, iteration, retry_count, todo,
                   result, beforeTrim, sessions, nextId, runs>>
    /\ UNCHANGED <<api_calls, tools_used, execution_metadata, reply>>
    /\ UNCHANGED outsideEngine

\* LoopCancelled without the reset of the flag
LoopCancelledKeepsFlag ==
    /\ pc = "loop"
    /\ iteration < MaxIterations
    /\ cancelled
    /\ cancelled' = cancelled
    /\ result' = CancelledAnswer
    /\ pc' = "returned"
    /\ UNCHANGED <<conversation_history, request, iteration, retry_count, todo,
                   beforeTrim, sessions, nextId, runs>>
    /\ UNCHANGED <<api_calls, tools_used, execution_metadata, reply>>
    /\ UNCHANGED outsideEngine

\* top of an iteration with the flag set: hard return
LoopCancelled ==
    /\ pc = "loop"
    /\ iteration < MaxIterations
    /\ cancelled
    /\ cancelled' = FALSE
    /\ result' = CancelledAnswer
    /\ pc' = "returned"
    /\ UNCHANGED <<conversation_history, request, iteration, retry_count, todo,
                   beforeTrim, sessions, nextId, runs>>
    /\ UNCHANGED <<api_calls, tools_used, execution_metadata, reply>>
    /\ UNCHANGED outsideEngine

\* the for loop ran out: the else branch
LoopExhausted ==
    /\ pc = "loop"
    /\ iteration = MaxIterations
    /\ result' = MaxIterAnswer
    /\ pc' = "returned"
    /\ UNCHANGED <<conversation_history, cancelled, request, iteration, retry_count,
                   todo, beforeTrim, sessions, nextId, runs>>
    /\ execution_metadata' = Metadata(iteration - 1, api_calls, tools_used)
    /\ UNCHANGED <<api_calls, tools_used, reply>>
    /\ UNCHANGED outsideEngine

\* Submit in a loop that does not stop at max_iterations
SubmitUnbounded ==
    /\ pc = "loop"
    /\ ~cancelled
    /\ beforeTrim' = conversation_history
    /\ conversation_history' = _trim_conversation_history(conversation_history)
    /\ retry_count' = 0
    /\ pc' = "provider"
    /\ UNCHANGED <<cancelled, request, iteration, todo, result, sessions, nextId, runs>>
    /\ api_calls' = api_calls + 1
    /\ UNCHANGED <<tools_used, execution_metadata, reply>>
    /\ UNCHANGED outsideEngine

\* trim, then hand conversation_history to client.chat.completions.create
Submit ==
    /\ pc = "loop"
    /\ iteration < MaxIterations
    /\ ~cancelled
    /\ beforeTrim' = conversation_history
    /\ conversation_history' = _trim_conversation_history(conversation_history)
    /\ retry_count' = 0
    /\ pc' = "provider"
    /\ UNCHANGED <<cancelled, request, iteration, todo, result, sessions, nextId, runs>>
    /\ api_calls' = api_calls + 1
    /\ UNCHANGED <<tools_used, execution_metadata, reply>>
    /\ UNCHANGED outsideEngine

(***************************************************************************)
(* The model provider's answers to one submission                          *)
(***************************************************************************)
\* what the model may ask for: a tool name and the raw arguments string,
\* kept as the kind of string it is
ToolKinds ==
    { [name |-> "duckdb_query", arguments |-> "valid"],
      [name |-> "duckdb_query", arguments |-> "not_json"],
      [name |-> "duckdb_schema", arguments |-> "no_required"],
      [name |-> "nosuch", arguments |-> "valid"],
      [name |-> "nosuch", arguments |-> "not_json"] }

\* tool_calls_data: the calls of the response, with the ids the provider gave
CallsOf(kinds, first) ==
    [i \in 1..Len(kinds) |-> Call(first + i - 1, kinds[i].name, kinds[i].arguments)]

KindSeqs == UNION {[1..n -> ToolKinds] : n \in 1..MaxCalls}

\* a response without tool calls: the loop ends with its content
ProviderAnswer ==
    /\ pc = "provider"
    /\ conversation_history' =
          Append(conversation_history, AssistantMessage("answer", <<>>))
    /\ result' = "answer"
    /\ beforeTrim' = <<>>
    /\ retry_count' = 0
    /\ pc' = "returned"
    /\ UNCHANGED <<cancelled, request, iteration, todo, sessions,
                   nextId, runs>>
    /\ execution_metadata' = Metadata(iteration, api_calls, tools_used)
    /\ UNCHANGED <<api_calls, tools_used, reply>>
    /\ UNCHANGED outsideEngine

\* a response asking for tool calls
ProviderToolCalls(kinds) ==
    /\ pc = "provider"
    /\ nextId + Len(kinds) - 1 <= MaxIds
    /\ LET calls == CallsOf(kinds, nextId)
       IN  /\ conversation_history' =
                 Append(conversation_history, AssistantMessage("", calls))
           /\ todo' = calls
    /\ nextId' = nextId + Len(kinds)
    /\ beforeTrim' = <<>>
    /\ retry_count' = 0
    /\ pc' = "dispatch"
    /\ UNCHANGED <<cancelled, request, iteration, result, sessions, runs>>
    /\ UNCHANGED <<api_calls, tools_used, execution_metadata, reply>>
    /\ UNCHANGED outsideEngine

\* the RuntimeError the exhausted retry loop ends in
RateLimitFatal == "RuntimeError: Rate limit exceeded"

\* ProviderRateLimit giving up one retry early
ProviderRateLimitOffByOne ==
    /\ pc = "provider"
    /\ IF retry_count + 1 >= max_retries
          THEN /\ pc' = "raised"
               /\ result' = RateLimitFatal
               /\ beforeTrim' = <<>>
               /\ retry_count' = 0
          ELSE /\ retry_count' = retry_count + 1
               /\ UNCHANGED <<pc, result, beforeTrim>>
    /\ UNCHANGED <<conversation_history, cancelled, request, iteration, todo,
                   sessions, nextId, runs>>
    /\ UNCHANGED <<api_calls, tools_used, execution_metadata, reply>>
    /\ UNCHANGED outsideEngine

\* RateLimitError: sleep and submit again, or give up after max_retries
ProviderRateLimit ==
    /\ pc = "provider"
    /\ IF retry_count + 1 > max_retries
          THEN /\ pc' = "raised"
               /\ result' = RateLimitFatal
               /\ beforeTrim' = <<>>
               /\ retry_count' = 0
          ELSE /\ retry_count' = retry_count + 1
               /\ UNCHANGED <<pc, result, beforeTrim>>
    /\ UNCHANGED <<conversation_history, cancelled, request, iteration, todo,
                   sessions, nextId, runs>>
    /\ UNCHANGED <<api_calls, tools_used, execution_metadata, reply>>
    /\ UNCHANGED outsideEngine

\* the RuntimeError a connection failure is turned into; its text holds
\* client.base_url
ConnectionFatal == "RuntimeError: Connection failed to Azure OpenAI endpoint"

\* ProviderConnectionError treated like a rate-limit signal: submit again
ProviderConnectionErrorRetried ==
    /\ pc = "provider"
    /\ IF retry_count + 1 > max_retries
          THEN /\ pc' = "raised"
               /\ result' = ConnectionFatal
               /\ beforeTrim' = <<>>
               /\ retry_count' = 0
          ELSE /\ retry_count' = retry_count + 1
               /\ UNCHANGED <<pc, result, beforeTrim>>
    /\ UNCHANGED <<conversation_history, cancelled, request, iteration, todo,
                   sessions, nextId, runs>>
    /\ UNCHANGED <<api_calls, tools_used, execution_metadata, reply>>
    /\ UNCHANGED outsideEngine

\* APIConnectionError: re-raised at once with the endpoint in the text
ProviderConnectionError ==
    /\ pc = "provider"
    /\ pc' = "raised"
    /\ result' = ConnectionFatal
    /\ beforeTrim' = <<>>
    /\ retry_count' = 0
    /\ UNCHANGED <<conversation_history, cancelled, request, iteration,
                   todo, sessions, nextId, runs>>
    /\ UNCHANGED <<api_calls, tools_used, execution_metadata, reply>>
    /\ UNCHANGED outsideEngine

\* any other provider error leaves run as it is; the rejection of a
\* conversation with unmatched tool calls has "tool_calls" in its text
CorruptedError == "BadRequestError: invalid tool_calls"

ProviderRejects ==
    /\ pc = "provider"
    /\ pc' = "raised"
    /\ result' = CorruptedError
    /\ beforeTrim' = <<>>
    /\ retry_count' = 0
    /\ UNCHANGED <<conversation_history, cancelled, request, iteration,
                   todo, sessions, nextId, runs>>
    /\ UNCHANGED <<api_calls, tools_used, execution_metadata, reply>>
    /\ UNCHANGED outsideEngine

(***************************************************************************)
(* Tool dispatch, lines 437-533                                            *)
(***************************************************************************)
\* the names the dispatch knows
RegisteredTools == {"duckdb_query", "duckdb_schema", "duckdb_chart"}

\* what the try block of the dispatch leaves in tool_result; handler is
\* "returns" or "raises", the outcome of the tool's own code
ToolResult(call, handler) ==
    IF call.name \notin RegisteredTools
       THEN "Unknown function"
    ELSE IF call.arguments = "no_required" THEN "Error executing"
    ELSE IF handler = "raises" THEN "Error executing"
    ELSE "tool output"

\* json.loads(arguments) is evaluated before the try block
ArgumentsParse(call) == call.arguments # "not_json"

Dispatch(handler) ==
    /\ pc = "dispatch"
    /\ todo # <<>>
    /\ LET call == Head(todo)
       IN  IF ~ArgumentsParse(call)
              THEN /\ pc' = "raised"
                   /\ result' = "JSONDecodeError"
                   /\ todo' = <<>>
                   /\ UNCHANGED <<conversation_history, iteration>>
              ELSE /\ conversation_history' =
                         Append(conversation_history,
                                ToolMessage(call.id, ToolResult(call, handler)))
                   /\ todo' = Tail(todo)
                   /\ iteration' = IF Tail(todo) = <<>> THEN iteration + 1 ELSE iteration
                   /\ pc' = IF Tail(todo) = <<>> THEN "loop" ELSE "dispatch"
                   /\ UNCHANGED result
    /\ UNCHANGED <<cancelled, request, retry_count, beforeTrim, sessions, nextId, runs>>
    /\ tools_used' = IF ArgumentsParse(Head(todo)) THEN Append(tools_used, Head(todo).id)
                                                    ELSE tools_used
    /\ UNCHANGED <<api_calls, execution_metadata, reply>>
    /\ UNCHANGED outsideEngine

(***************************************************************************)
(* The progress callback on_step, lines 282-283, 448-465, 516-517          *)
(***************************************************************************)
\* the exception a failing callback raises
CallbackError == "CallbackError"

\* the calls of on_step: "Thinking...", "Executing <name>...",
\* "Finished <name>"
CallbackSites == {"start", "before_tool", "after_tool"}

\* run_chat_stream gives its first run a callback; run_chat and the retry
\* of run_chat_stream give none
HasCallback == request.kind = "run_chat_stream" /\ ~request.retried

\* the callback raises: none of its calls is inside a try block, so the
\* exception leaves run where it was raised
StepCallbackRaises(where) ==
    /\ HasCallback
    /\ \/ /\ where = "start"
          /\ pc = "prepared"
          /\ UNCHANGED <<todo, tools_used>>
       \/ /\ where = "before_tool"
          /\ pc = "dispatch"
          /\ todo # <<>>
          /\ ArgumentsParse(Head(todo))
          /\ todo' = <<>>
          /\ UNCHANGED tools_used
       \/ /\ where = "after_tool"
          /\ pc = "dispatch"
          /\ todo # <<>>
          /\ ArgumentsParse(Head(todo))
          /\ todo' = <<>>
          /\ tools_used' = Append(tools_used, Head(todo).id)
    /\ pc' = "raised"
    /\ result' = CallbackError
    /\ UNCHANGED <<conversation_history, cancelled, request, iteration, retry_count,
                   beforeTrim, sessions, nextId, runs>>
    /\ UNCHANGED <<api_calls, execution_metadata, reply>>
    /\ UNCHANGED outsideEngine

(***************************************************************************)
(* Chat request, coordinator side, after agent.run                         *)
(***************************************************************************)
NoRequest == [kind |-> "run_chat", reset |-> FALSE, session_id |-> NoSession,
              retried |-> FALSE]

\* run returned: the session is saved under the request's session id
ChatEnd ==
    /\ pc = "returned"
    /\ CanSave(request.session_id)
    /\ sessions' = save_session(SessionMessages(conversation_history),
                                request.session_id)
    /\ pc' = "idle"
    /\ request' = NoRequest
    /\ runs' = runs + 1
    /\ iteration' = 0
    /\ result' = ""
    /\ UNCHANGED <<conversation_history, cancelled, retry_count, todo, beforeTrim,
                   nextId>>
    /\ reply' = [type |-> "response", session_id |-> SavedId(request.session_id)]
    /\ api_calls' = 0
    /\ tools_used' = <<>>
    /\ UNCHANGED <<execution_metadata>>
    /\ UNCHANGED outsideEngine

\* run_chat has no handler: the exception leaves the operation
ChatRaises ==
    /\ pc = "raised"
    /\ request.kind = "run_chat"
    /\ pc' = "idle"
    /\ request' = NoRequest
    /\ runs' = runs + 1
    /\ iteration' = 0
    /\ result' = ""
    /\ UNCHANGED <<conversation_history, cancelled, retry_count, todo, beforeTrim,
                   sessions, nextId>>
    /\ reply' = [type |-> "exception", session_id |-> NoSession]
    /\ api_calls' = 0
    /\ tools_used' = <<>>
    /\ UNCHANGED <<execution_metadata>>
    /\ UNCHANGED outsideEngine

\* StreamRetry calling run again with the reset argument of the request
StreamRetryKeepsHistory ==
    /\ pc = "raised"
    /\ request.kind = "run_chat_stream"
    /\ result = CorruptedError
    /\ ~request.retried
    /\ request' = [request EXCEPT !.retried = TRUE]
    /\ pc' = "prepared"
    /\ result' = ""
    /\ UNCHANGED <<conversation_history, cancelled, iteration, retry_count, todo,
                   beforeTrim, sessions, nextId, runs>>
    /\ UNCHANGED <<api_calls, tools_used, execution_metadata, reply>>
    /\ UNCHANGED outsideEngine

\* run_chat_stream, lines 1052-1062: the first run failed with the
\* corrupted-conversation text; run is called again with reset=True
StreamRetry ==
    /\ pc = "raised"
    /\ request.kind = "run_chat_stream"
    /\ result = CorruptedError
    /\ ~request.retried
    /\ request' = [request EXCEPT !.reset = TRUE, !.retried = TRUE]
    /\ pc' = "prepared"
    /\ result' = ""
    /\ UNCHANGED <<conversation_history, cancelled, iteration, retry_count, todo,
                   beforeTrim, sessions, nextId, runs>>
    /\ UNCHANGED <<api_calls, tools_used, execution_metadata, reply>>
    /\ UNCHANGED outsideEngine

\* run_chat_stream, lines 1170-1220: any other failure becomes an error
\* event; with a session id the error is appended and the session saved
StreamError ==
    /\ pc = "raised"
    /\ request.kind = "run_chat_stream"
    /\ result # CorruptedError \/ request.retried
    /\ CanSave(request.session_id)
    /\ IF request.session_id # NoSession
          THEN LET history == Append(conversation_history,
                                     AssistantMessage("Error: message", <<>>))
               IN  /\ conversation_history' = history
                   /\ sessions' = save_session(SessionMessages(history),
                                               request.session_id)
          ELSE UNCHANGED <<conversation_history, sessions>>
    /\ pc' = "idle"
    /\ request' = NoRequest
    /\ runs' = runs + 1
    /\ iteration' = 0
    /\ result' = ""
    /\ UNCHANGED <<cancelled, retry_count, todo, beforeTrim, nextId>>
    /\ reply' = [type |-> "error", session_id |-> NoSession]
    /\ api_calls' = 0
    /\ tools_used' = <<>>
    /\ UNCHANGED <<execution_metadata>>
    /\ UNCHANGED outsideEngine

(***************************************************************************)
(* Quiet values of the groups of variables                                 *)
(***************************************************************************)
EngineIdle ==
    /\ conversation_history = <<>>
    /\ cancelled = FALSE
    /\ pc = "idle"
    /\ request = NoRequest
    /\ iteration = 0
    /\ retry_count = 0
    /\ todo = <<>>
    /\ result = ""
    /\ beforeTrim = <<>>
    /\ sessions = [s \in SessionIds |-> NoStored]
    /\ api_calls = 0
    /\ tools_used = <<>>
    /\ execution_metadata = NoMetadata
    /\ reply = NoReply
    /\ nextId = 1
    /\ runs = 0

SanIdle ==
    /\ san_history = <<>>
    /\ san_once = <<>>
    /\ san_twice = <<>>
    /\ san_stage = 0

\* number of concurrent request tasks in SpecCoord
MaxReqs == 2
\* execution_timeout of run_chat_stream (max(300 s, 5 x agent_timeout)) in
\* clock ticks, scaled down
ExecutionTimeout == 2
Reqs == 1..MaxReqs
Projects == {"p1", "p2"}
Free == 0
NoWrite == [by |-> Free, locked |-> TRUE, during_run |-> FALSE]

\* number of calls of _ensure_agent in SpecEnsure
MaxEnsureCalls == 6
NoAgent == 0

EnsureIdle ==
    /\ _agent = NoAgent
    /\ agent_init_lock = Free
    /\ ensure_at = [r \in Reqs |-> "idle"]
    /\ ensure_got = [r \in Reqs |-> NoAgent]
    /\ ensure_calls = 0
    /\ creations = 0

PostIdle ==
    /\ post_answer = <<>>
    /\ post_trace = <<>>
    /\ post_history = [earlier |-> "", trimmed |-> 0]
    /\ post_once = <<>>
    /\ post_twice = <<>>
    /\ post_stage = 0

\* content of a message: a string (kind "str") or the JSON dump of a list
\* of parts (kind "json"), with its text as a sequence of characters
Content(kind, text) == [kind |-> kind, text |-> text]

NoInput == [op |-> "run_chat", message |-> <<>>, project |-> FALSE,
            instructions |-> FALSE, images |-> FALSE, file |-> FALSE]

PersistIdle ==
    /\ persist_input = NoInput
    /\ persist_content = Content("str", <<>>)
    /\ persist_stored = Content("str", <<>>)
    /\ persist_stage = 0

\* the task of status_queue.get(): not created, pending, done with the
\* item it took, or cancelled
NoTask == [state |-> "none", item |-> 0]
PendingTask == [state |-> "pending", item |-> 0]
CancelledTask == [state |-> "cancelled", item |-> 0]
DoneTask(item) == [state |-> "done", item |-> item]

StreamIdle ==
    /\ worker = "idle"
    /\ emitted = 0
    /\ ready = <<>>
    /\ status_queue = <<>>
    /\ queue_task = NoTask
    /\ agent_task_done = FALSE
    /\ gen = "idle"
    /\ events = <<>>

\* ids of session files, and no file under an id
StoreIds == {"f1", "f2"}
NoFile == [exists |-> FALSE, id |-> "", created_at |-> 0, description |-> "",
           messages |-> <<>>]

\* no call of save_session made yet
NoSaved == [n |-> 0, supplied |-> "", id |-> "", existing |-> FALSE,
            generated |-> FALSE, messages |-> <<>>]

StoreIdle ==
    /\ files = [f \in StoreIds |-> NoFile]
    /\ time = 0
    /\ last_save = NoSaved

RestIdle ==
    /\ EnsureIdle
    /\ PostIdle
    /\ PersistIdle
    /\ StreamIdle
    /\ StoreIdle

CoordIdle ==
    /\ agent_created = FALSE
    /\ op = [r \in Reqs |-> "none"]
    /\ at = [r \in Reqs |-> "new"]
    /\ outcome = [r \in Reqs |-> "none"]
    /\ threads = {}
    /\ agent_run_lock = Free
    /\ query_lock = Free
    /\ current_database = "none"
    /\ pointer_write = NoWrite
    /\ buffer_write = NoWrite
    /\ clock = [r \in Reqs |-> 0]

(***************************************************************************)
(* Coordinator operations as concurrent asyncio tasks (SpecCoord).         *)
(* A task runs without interruption between two awaits; agent.run runs in  *)
(* a worker thread (asyncio.to_thread) while its task awaits it.           *)
(***************************************************************************)
\* operations that take _agent_run_lock before anything else
LockedOps == {"run_chat", "run_chat_stream", "assist_query", "assist_query_error"}
\* operations that use the agent without taking _agent_run_lock
UnlockedOps == {"auto_describe_field", "ai_assist_field"}

\* the record of a write by task r, made in the current state
WriteBy(r) ==
    [by |-> r, locked |-> agent_run_lock = r, during_run |-> threads \ {r} # {}]

\* the same record once the task has taken the run lock in this step
LockedWriteBy(r) ==
    [by |-> r, locked |-> TRUE, during_run |-> threads \ {r} # {}]

\* async with self._agent_run_lock, then up to the await of agent.run:
\* _set_agent_project, the session restore (chat operations), to_thread
LockedStart(r, o, project) ==
    /\ at[r] = "new"
    /\ o \in LockedOps
    /\ agent_run_lock = Free
    /\ agent_created' = TRUE
    /\ agent_run_lock' = r
    /\ op' = [op EXCEPT ![r] = o]
    /\ current_database' = project
    /\ pointer_write' = LockedWriteBy(r)
    /\ buffer_write' = LockedWriteBy(r)
    /\ threads' = threads \cup {r}
    /\ at' = [at EXCEPT ![r] = "awaiting"]
    /\ UNCHANGED <<outcome, query_lock>>
    /\ clock' = [clock EXCEPT ![r] = 0]
    /\ UNCHANGED <<engineVars, sanVars, restVars>>

\* the worker thread leaves agent.run: by return, with the provider's
\* corrupted-conversation error, or with another exception
ThreadEnds(r, how) ==
    /\ r \in threads
    /\ threads' = threads \ {r}
    /\ outcome' = [outcome EXCEPT ![r] = IF at[r] = "done" THEN outcome[r] ELSE how]
    /\ UNCHANGED <<agent_created, op, at, agent_run_lock, query_lock,
                   current_database, pointer_write, buffer_write>>
    /\ clock' = [clock EXCEPT ![r] = 0]
    /\ UNCHANGED <<engineVars, sanVars, restVars>>

\* run_chat, assist_query, assist_query_error after agent.run: the session
\* is saved (run_chat) and the lock released; an exception leaves through
\* the async with, which releases the lock as well
LockedFinish(r) ==
    /\ at[r] = "awaiting"
    /\ op[r] \in LockedOps \ {"run_chat_stream"}
    /\ r \notin threads
    /\ agent_run_lock' = Free
    /\ at' = [at EXCEPT ![r] = "done"]
    /\ outcome' = [outcome EXCEPT ![r] = "none"]
    /\ UNCHANGED <<agent_created, op, threads, query_lock, current_database,
                   pointer_write, buffer_write>>
    /\ UNCHANGED clock
    /\ UNCHANGED <<engineVars, sanVars, restVars>>

\* run_chat_stream, lines 1050-1062: the first run failed with the
\* corrupted-conversation text: run again with reset=True under wait_for
StreamRetryStart(r) ==
    /\ at[r] = "awaiting"
    /\ op[r] = "run_chat_stream"
    /\ r \notin threads
    /\ outcome[r] = "corrupted"
    /\ threads' = threads \cup {r}
    /\ buffer_write' = WriteBy(r)
    /\ outcome' = [outcome EXCEPT ![r] = "none"]
    /\ at' = [at EXCEPT ![r] = "retrying"]
    /\ UNCHANGED <<agent_created, op, agent_run_lock, query_lock, current_database,
                   pointer_write>>
    /\ clock' = [clock EXCEPT ![r] = 0]
    /\ UNCHANGED <<engineVars, sanVars, restVars>>

\* run_chat_stream: the run (first or retried) returned: the session is
\* saved, the response and done events are sent, the lock is released
StreamFinish(r) ==
    /\ at[r] \in {"awaiting", "retrying"}
    /\ op[r] = "run_chat_stream"
    /\ r \notin threads
    /\ outcome[r] = "returned"
    /\ agent_run_lock' = Free
    /\ at' = [at EXCEPT ![r] = "done"]
    /\ outcome' = [outcome EXCEPT ![r] = "none"]
    /\ UNCHANGED <<agent_created, op, threads, query_lock, current_database,
                   pointer_write, buffer_write>>
    /\ UNCHANGED clock
    /\ UNCHANGED <<engineVars, sanVars, restVars>>

\* StreamFails leaving the operation with the lock still held
StreamFailsKeepsLock(r) ==
    /\ op[r] = "run_chat_stream"
    /\ r \notin threads
    /\ \/ at[r] = "awaiting" /\ outcome[r] = "failed"
       \/ at[r] = "retrying" /\ outcome[r] \in {"failed", "corrupted"}
    /\ buffer_write' = WriteBy(r)
    /\ at' = [at EXCEPT ![r] = "done"]
    /\ outcome' = [outcome EXCEPT ![r] = "none"]
    /\ UNCHANGED <<agent_created, op, threads, agent_run_lock, query_lock,
                   current_database, pointer_write>>
    /\ UNCHANGED clock
    /\ UNCHANGED <<engineVars, sanVars, restVars>>

\* run_chat_stream, except Exception: the error is appended to the history,
\* the session saved, the error event sent, the lock released
StreamFails(r) ==
    /\ op[r] = "run_chat_stream"
    /\ r \notin threads
    /\ \/ at[r] = "awaiting" /\ outcome[r] = "failed"
       \/ at[r] = "retrying" /\ outcome[r] \in {"failed", "corrupted"}
    /\ buffer_write' = WriteBy(r)
    /\ agent_run_lock' = Free
    /\ at' = [at EXCEPT ![r] = "done"]
    /\ outcome' = [outcome EXCEPT ![r] = "none"]
    /\ UNCHANGED <<agent_created, op, threads, query_lock, current_database,
                   pointer_write>>
    /\ UNCHANGED clock
    /\ UNCHANGED <<engineVars, sanVars, restVars>>

\* run_chat_stream, except asyncio.TimeoutError: wait_for gave up on the
\* retried run; its worker thread cannot be cancelled and keeps running
StreamTimeout(r) ==
    /\ at[r] = "retrying"
    /\ op[r] = "run_chat_stream"
    /\ r \in threads
    /\ clock[r] = ExecutionTimeout
    /\ buffer_write' = WriteBy(r)
    /\ agent_run_lock' = Free
    /\ at' = [at EXCEPT ![r] = "done"]
    /\ UNCHANGED <<agent_created, op, outcome, threads, query_lock, current_database,
                   pointer_write>>
    /\ clock' = [clock EXCEPT ![r] = 0]
    /\ UNCHANGED <<engineVars, sanVars, restVars>>

\* auto_describe_field, ai_assist_field: _set_agent_project with no lock
\* held; auto_describe_field goes straight on to agent.run, ai_assist_field
\* first awaits the sample queries
UnlockedStart(r, o, project) ==
    /\ at[r] = "new"
    /\ o \in UnlockedOps
    /\ agent_created' = TRUE
    /\ op' = [op EXCEPT ![r] = o]
    /\ current_database' = project
    /\ pointer_write' = WriteBy(r)
    /\ IF o = "auto_describe_field"
          THEN /\ threads' = threads \cup {r}
               /\ buffer_write' = WriteBy(r)
               /\ at' = [at EXCEPT ![r] = "awaiting"]
          ELSE /\ at' = [at EXCEPT ![r] = "sampling"]
               /\ UNCHANGED <<threads, buffer_write>>
    /\ UNCHANGED <<outcome, agent_run_lock, query_lock>>
    /\ UNCHANGED clock
    /\ UNCHANGED <<engineVars, sanVars, restVars>>

\* enrich_table_from_file: async with self._query_lock, then the awaited
\* schema query
EnrichStart(r) ==
    /\ at[r] = "new"
    /\ query_lock = Free
    /\ query_lock' = r
    /\ op' = [op EXCEPT ![r] = "enrich_table_from_file"]
    /\ at' = [at EXCEPT ![r] = "sampling"]
    /\ UNCHANGED <<agent_created, outcome, threads, agent_run_lock, current_database,
                   pointer_write, buffer_write>>
    /\ UNCHANGED clock
    /\ UNCHANGED <<engineVars, sanVars, restVars>>

\* RunAfterSampling taking _agent_run_lock for the run, which
\* enrich_table_from_file would then take inside its _query_lock
RunAfterSamplingLocked(r) ==
    /\ at[r] = "sampling"
    /\ agent_run_lock = Free
    /\ agent_run_lock' = r
    /\ agent_created' = TRUE
    /\ threads' = threads \cup {r}
    /\ buffer_write' = LockedWriteBy(r)
    /\ at' = [at EXCEPT ![r] = "awaiting"]
    /\ UNCHANGED <<op, outcome, query_lock, current_database, pointer_write>>
    /\ UNCHANGED clock
    /\ UNCHANGED <<engineVars, sanVars, restVars>>

\* ai_assist_field, enrich_table_from_file: the awaited queries are done,
\* agent.run is handed to a worker thread
RunAfterSampling(r) ==
    /\ at[r] = "sampling"
    /\ agent_created' = TRUE
    /\ threads' = threads \cup {r}
    /\ buffer_write' = WriteBy(r)
    /\ at' = [at EXCEPT ![r] = "awaiting"]
    /\ UNCHANGED <<op, outcome, agent_run_lock, query_lock, current_database,
                   pointer_write>>
    /\ UNCHANGED clock
    /\ UNCHANGED <<engineVars, sanVars, restVars>>

\* auto_describe_field, ai_assist_field, enrich_table_from_file after
\* agent.run; enrich_table_from_file leaves its async with
UnlockedFinish(r) ==
    /\ at[r] = "awaiting"
    /\ op[r] \in UnlockedOps \cup {"enrich_table_from_file"}
    /\ r \notin threads
    /\ query_lock' = IF query_lock = r THEN Free ELSE query_lock
    /\ at' = [at EXCEPT ![r] = "done"]
    /\ outcome' = [outcome EXCEPT ![r] = "none"]
    /\ UNCHANGED <<agent_created, op, threads, agent_run_lock,
                   current_database, pointer_write, buffer_write>>
    /\ UNCHANGED clock
    /\ UNCHANGED <<engineVars, sanVars, restVars>>

\* time passes while a streaming request awaits its agent.run: the first
\* run is awaited as a plain task (lines 1007-1050), the retried run under
\* asyncio.wait_for, whose timer fires once execution_timeout has elapsed
Tick(r) ==
    /\ op[r] = "run_chat_stream"
    /\ at[r] \in {"awaiting", "retrying"}
    /\ r \in threads
    /\ clock[r] < (IF at[r] = "retrying" THEN ExecutionTimeout ELSE ExecutionTimeout + 1)
    /\ clock' = [clock EXCEPT ![r] = clock[r] + 1]
    /\ UNCHANGED <<agent_created, op, at, outcome, threads, agent_run_lock, query_lock,
                   current_database, pointer_write, buffer_write>>
    /\ UNCHANGED <<engineVars, sanVars, restVars>>

\* QueryStart with the one lock of a runtime that has no second lock domain
QueryStartUnderRunLock(r) ==
    /\ at[r] = "new"
    /\ query_lock = Free
    /\ agent_run_lock = Free
    /\ query_lock' = r
    /\ op' = [op EXCEPT ![r] = "run_sql"]
    /\ at' = [at EXCEPT ![r] = "querying"]
    /\ UNCHANGED <<agent_created, outcome, threads, agent_run_lock, current_database,
                   pointer_write, buffer_write, clock>>
    /\ UNCHANGED <<engineVars, sanVars, restVars>>

\* run_sql (and the other operations guarded by _query_lock alone): async
\* with self._query_lock, then the awaited query
QueryStart(r) ==
    /\ at[r] = "new"
    /\ query_lock = Free
    /\ query_lock' = r
    /\ op' = [op EXCEPT ![r] = "run_sql"]
    /\ at' = [at EXCEPT ![r] = "querying"]
    /\ UNCHANGED <<agent_created, outcome, threads, agent_run_lock, current_database,
                   pointer_write, buffer_write, clock>>
    /\ UNCHANGED <<engineVars, sanVars, restVars>>

\* run_sql: the query returned, the async with releases _query_lock
QueryFinish(r) ==
    /\ at[r] = "querying"
    /\ op[r] = "run_sql"
    /\ query_lock' = Free
    /\ at' = [at EXCEPT ![r] = "done"]
    /\ UNCHANGED <<agent_created, op, outcome, threads, agent_run_lock, current_database,
                   pointer_write, buffer_write, clock>>
    /\ UNCHANGED <<engineVars, sanVars, restVars>>

InitCoord ==
    /\ EngineIdle
    /\ SanIdle
    /\ CoordIdle
    /\ RestIdle

NextCoord ==
    \/ \E r \in Reqs, o \in LockedOps, project \in Projects : LockedStart(r, o, project)
    \/ \E r \in Reqs, how \in {"returned", "corrupted", "failed"} : ThreadEnds(r, how)
    \/ \E r \in Reqs : LockedFinish(r)
    \/ \E r \in Reqs : StreamRetryStart(r)
    \/ \E r \in Reqs : StreamFinish(r)
    \/ \E r \in Reqs : StreamFails(r)
    \/ \E r \in Reqs : StreamTimeout(r)
    \/ \E r \in Reqs, o \in UnlockedOps, project \in Projects : UnlockedStart(r, o, project)
    \/ \E r \in Reqs : EnrichStart(r)
    \/ \E r \in Reqs : RunAfterSampling(r)
    \/ \E r \in Reqs : UnlockedFinish(r)
    \/ \E r \in Reqs : Tick(r)
    \/ \E r \in Reqs : QueryStart(r)
    \/ \E r \in Reqs : QueryFinish(r)

SpecCoord == InitCoord /\ [][NextCoord]_vars

(***************************************************************************)
(* Specification of chat requests queueing for _agent_run_lock             *)
(***************************************************************************)
ChatOps == {"run_chat", "run_chat_stream"}

\* run_chat, run_chat_stream up to "async with self._agent_run_lock": the
\* agent is there (_ensure_agent) and the task asks for the lock
ChatArrives(r, o) ==
    /\ at[r] = "new"
    /\ o \in ChatOps
    /\ agent_created' = TRUE
    /\ op' = [op EXCEPT ![r] = o]
    /\ at' = [at EXCEPT ![r] = "waiting"]
    /\ UNCHANGED <<outcome, threads, agent_run_lock, query_lock, current_database,
                   pointer_write, buffer_write, clock>>
    /\ UNCHANGED <<engineVars, sanVars, restVars>>

\* the lock is free and given to the waiting task, which goes on up to the
\* await of agent.run: _set_agent_project, the session restore, to_thread
WaiterStart(r, project) ==
    /\ at[r] = "waiting"
    /\ agent_run_lock = Free
    /\ agent_run_lock' = r
    /\ current_database' = project
    /\ pointer_write' = LockedWriteBy(r)
    /\ buffer_write' = LockedWriteBy(r)
    /\ threads' = threads \cup {r}
    /\ at' = [at EXCEPT ![r] = "awaiting"]
    /\ clock' = [clock EXCEPT ![r] = 0]
    /\ UNCHANGED <<agent_created, op, outcome, query_lock>>
    /\ UNCHANGED <<engineVars, sanVars, restVars>>

NextLock ==
    \/ \E r \in Reqs, o \in ChatOps : ChatArrives(r, o)
    \/ \E r \in Reqs, project \in Projects : WaiterStart(r, project)
    \/ \E r \in Reqs, how \in {"returned", "corrupted", "failed"} : ThreadEnds(r, how)
    \/ \E r \in Reqs : LockedFinish(r)
    \/ \E r \in Reqs : StreamRetryStart(r)
    \/ \E r \in Reqs : StreamFinish(r)
    \/ \E r \in Reqs : StreamFails(r)
    \/ \E r \in Reqs : StreamTimeout(r)
    \/ \E r \in Reqs : Tick(r)

\* every engine run returns, every task that can go on is resumed by the
\* event loop (the stream is consumed to its end), and a task waiting for
\* the lock is woken once the lock stays free
SpecLock ==
    /\ InitCoord
    /\ [][NextLock]_vars
    /\ \A r \in Reqs :
          /\ WF_vars(\E how \in {"returned", "corrupted", "failed"} : ThreadEnds(r, how))
          /\ WF_vars(LockedFinish(r))
          /\ WF_vars(StreamRetryStart(r))
          /\ WF_vars(StreamFinish(r))
          /\ WF_vars(StreamFails(r))
          /\ WF_vars(\E project \in Projects : WaiterStart(r, project))

(***************************************************************************)
(* Specification of the engine serving chat requests one after another     *)
(***************************************************************************)
Init ==
    /\ EngineIdle
    /\ SanIdle
    /\ CoordIdle
    /\ RestIdle

Next ==
    \/ \E kind \in ChatKinds, reset \in BOOLEAN, sid \in SessionIds \cup {NoSession} :
          ChatBegin(kind, reset, sid)
    \/ RunBegin
    \/ Cancel
    \/ LoopCancelled
    \/ LoopExhausted
    \/ Submit
    \/ ProviderAnswer
    \/ \E kinds \in KindSeqs : ProviderToolCalls(kinds)
    \/ ProviderRateLimit
    \/ ProviderConnectionError
    \/ ProviderRejects
    \/ \E handler \in {"returns", "raises"} : Dispatch(handler)
    \/ \E where \in CallbackSites : StepCallbackRaises(where)
    \/ ChatEnd
    \/ ChatRaises
    \/ StreamRetry
    \/ StreamError

Spec == Init /\ [][Next]_vars

(***************************************************************************)
(* Specification of agent.run called by assist_query, one call after       *)
(* another on the same agent (no session, reset=False)                     *)
(***************************************************************************)
\* assist_query up to the call of agent.run(prompt, reset=False)
AssistBegin ==
    /\ pc = "idle"
    /\ runs < MaxRuns
    /\ request' = [kind |-> "assist_query", reset |-> FALSE, session_id |-> NoSession,
                   retried |-> FALSE]
    /\ pc' = "prepared"
    /\ UNCHANGED <<conversation_history, cancelled, iteration, retry_count, todo, result,
                   beforeTrim, sessions, nextId, runs, api_calls, tools_used,
                   execution_metadata, reply>>
    /\ UNCHANGED outsideEngine

\* assist_query after agent.run: the text is returned, or the exception
\* leaves the operation; nothing is stored
AssistEnd ==
    /\ pc \in {"returned", "raised"}
    /\ request.kind = "assist_query"
    /\ pc' = "idle"
    /\ request' = NoRequest
    /\ runs' = runs + 1
    /\ iteration' = 0
    /\ result' = ""
    /\ api_calls' = 0
    /\ tools_used' = <<>>
    /\ UNCHANGED <<conversation_history, cancelled, retry_count, todo, beforeTrim,
                   sessions, nextId, execution_metadata, reply>>
    /\ UNCHANGED outsideEngine

\* the tool calls the model asks for in these runs
RunToolKinds ==
    { [name |-> "duckdb_query", arguments |-> "valid"],
      [name |-> "duckdb_query", arguments |-> "not_json"] }

RunKindSeqs == UNION {[1..n -> RunToolKinds] : n \in 1..MaxCalls}

\* the provider answers the pending submission, in one way or another
ProviderResponds ==
    \/ ProviderAnswer
    \/ \E kinds \in RunKindSeqs : ProviderToolCalls(kinds)
    \/ ProviderRateLimit
    \/ ProviderConnectionError
    \/ ProviderRejects

NextRun ==
    \/ AssistBegin
    \/ RunBegin
    \/ Cancel
    \/ LoopCancelled
    \/ LoopExhausted
    \/ Submit
    \/ ProviderAnswer
    \/ \E kinds \in RunKindSeqs : ProviderToolCalls(kinds)
    \/ ProviderRateLimit
    \/ ProviderConnectionError
    \/ ProviderRejects
    \/ \E handler \in {"returns", "raises"} : Dispatch(handler)
    \/ AssistEnd

SpecRun == Init /\ [][NextRun]_vars

\* every provider call and every tool handler returns, and the thread
\* executing run keeps being scheduled
SpecRunFair ==
    /\ SpecRun
    /\ WF_vars(RunBegin)
    /\ WF_vars(LoopCancelled)
    /\ WF_vars(LoopExhausted)
    /\ WF_vars(Submit)
    /\ WF_vars(ProviderResponds)
    /\ WF_vars(\E handler \in {"returns", "raises"} : Dispatch(handler))

(***************************************************************************)
(* Specification of chat requests, one after another on the shared agent,  *)
(* with the sessions they restore and store, and sessions deleted          *)
(* meanwhile through the sessions endpoint                                 *)
(***************************************************************************)
\* ChatHistoryManager.delete_session, called by the delete endpoint at any
\* time: it takes no lock
DeleteSession(session_id) ==
    /\ sessions[session_id].exists
    /\ sessions' = [sessions EXCEPT ![session_id] = NoStored]
    /\ UNCHANGED <<conversation_history, cancelled, pc, request, iteration, retry_count,
                   todo, result, beforeTrim, nextId, runs, api_calls, tools_used,
                   execution_metadata, reply>>
    /\ UNCHANGED outsideEngine

\* the tool calls the model asks for in these runs
ChatKindSeqs == { <<[name |-> "duckdb_query", arguments |-> "valid"]>> }

NextChat ==
    \/ \E kind \in ChatKinds, reset \in BOOLEAN, sid \in SessionIds \cup {NoSession} :
          ChatBegin(kind, reset, sid)
    \/ RunBegin
    \/ LoopExhausted
    \/ Submit
    \/ ProviderAnswer
    \/ \E kinds \in ChatKindSeqs : ProviderToolCalls(kinds)
    \/ ProviderRejects
    \/ \E handler \in {"returns", "raises"} : Dispatch(handler)
    \/ ChatEnd
    \/ ChatRaises
    \/ StreamRetry
    \/ StreamError
    \/ \E sid \in SessionIds : DeleteSession(sid)

SpecChat == Init /\ [][NextChat]_vars

(***************************************************************************)
(* ChatHistoryManager: the session files of one project (chat_history.py). *)
(* A ChatMessage is kept as its role and content.                          *)
(***************************************************************************)
\* longest message list saved, latest time, number of saves
MaxStored == 10
MaxTime == 1
MaxSaves == 3

Placeholder == "Chat Session"

\* a conversation of n messages, user and assistant in turn; first is the
\* content of the first user message
Conversation(n, first) ==
    [i \in 1..n |->
        [role |-> IF i % 2 = 1 THEN "user" ELSE "assistant",
         content |-> IF i = 1 THEN first ELSE "text"]]

\* the message lists save_session is called with
StoreLists ==
    { Conversation(n, "question") : n \in {0, 1, 2, MaxStored - 1, MaxStored} }
    \cup { Conversation(n, "") : n \in 1..2 }

\* get_fallback_title, lines 124-148: the content of the first user message
\* that has one, or the placeholder
get_fallback_title(messages) ==
    LET users == {i \in 1..Len(messages) :
                     messages[i].role = "user" /\ messages[i].content # ""}
    IN  IF users = {} THEN Placeholder
        ELSE messages[CHOOSE i \in users : \A j \in users : i <= j].content

\* lines 118-219: the title of a message list; provider is what the title
\* request to the model gives: a title, or nothing (no key, failure, empty)
_generate_description(messages, provider) ==
    IF messages = <<>> THEN "Empty chat"
    ELSE IF \A i \in 1..Len(messages) :
                messages[i].role \notin {"user", "assistant"}
                   \/ messages[i].content = ""
            THEN "No conversation content"
    ELSE IF provider = "title" THEN "Generated title"
    ELSE get_fallback_title(messages)

\* lines 27-29: the stored session of that id, if any
existing_session(session_id) ==
    IF session_id \in StoreIds /\ files[session_id].exists
       THEN files[session_id] ELSE NoFile

\* line 38: user_msg_count
user_msg_count(messages) ==
    Cardinality({i \in 1..Len(messages) : messages[i].role = "user"})

\* lines 42-45: whether the title of an existing session is made again
Regenerates(messages, existing) ==
    /\ Len(messages) > Len(existing.messages)
    /\ \/ user_msg_count(messages) > 0 /\ user_msg_count(messages) % 5 = 0
       \/ existing.description = Placeholder

\* line 48: an id made of the time and random bytes, unused so far
NewSessionId(session_id) ==
    CHOOSE f \in StoreIds \ {session_id} : ~files[f].exists

\* save_session stamping the session with the time of the save
SaveSessionRestamped(messages, session_id, provider) ==
    LET existing == existing_session(session_id)
        final_session_id == IF existing.exists THEN existing.id
                            ELSE NewSessionId(session_id)
        regenerate == ~existing.exists \/ Regenerates(messages, existing)
    IN  /\ last_save.n < MaxSaves
        /\ existing.exists \/ \E f \in StoreIds \ {session_id} : ~files[f].exists
        /\ files' = [files EXCEPT ![final_session_id] =
                        [exists |-> TRUE,
                         id |-> final_session_id,
                         created_at |-> time,
                         description |-> IF regenerate
                                            THEN _generate_description(messages, provider)
                                            ELSE existing.description,
                         messages |-> messages]]
        /\ last_save' = [n |-> last_save.n + 1, supplied |-> session_id,
                     id |-> final_session_id, existing |-> existing.exists,
                     generated |-> regenerate, messages |-> messages]
        /\ UNCHANGED time
        /\ UNCHANGED <<engineVars, sanVars, coordVars, ensureVars, postVars, persistVars,
                       streamVars>>

\* save_session, lines 24-65
SaveSession(messages, session_id, provider) ==
    LET existing == existing_session(session_id)
        final_session_id == IF existing.exists THEN existing.id
                            ELSE NewSessionId(session_id)
        regenerate == ~existing.exists \/ Regenerates(messages, existing)
    IN  /\ last_save.n < MaxSaves
        /\ existing.exists \/ \E f \in StoreIds \ {session_id} : ~files[f].exists
        /\ files' = [files EXCEPT ![final_session_id] =
                        [exists |-> TRUE,
                         id |-> final_session_id,
                         created_at |-> IF existing.exists THEN existing.created_at
                                        ELSE time,
                         description |-> IF regenerate
                                            THEN _generate_description(messages, provider)
                                            ELSE existing.description,
                         messages |-> messages]]
        /\ last_save' = [n |-> last_save.n + 1, supplied |-> session_id,
                     id |-> final_session_id, existing |-> existing.exists,
                     generated |-> regenerate, messages |-> messages]
        /\ UNCHANGED time
        /\ UNCHANGED <<engineVars, sanVars, coordVars, ensureVars, postVars, persistVars,
                       streamVars>>

\* delete_session, lines 110-117
StoreDelete(session_id) ==
    /\ files[session_id].exists
    /\ files' = [files EXCEPT ![session_id] = NoFile]
    /\ UNCHANGED <<time, last_save>>
    /\ UNCHANGED <<engineVars, sanVars, coordVars, ensureVars, postVars, persistVars,
                   streamVars>>

\* time passes between two calls
StoreTick ==
    /\ time < MaxTime
    /\ time' = time + 1
    /\ UNCHANGED <<files, last_save>>
    /\ UNCHANGED <<engineVars, sanVars, coordVars, ensureVars, postVars, persistVars,
                   streamVars>>

NextStore ==
    \/ \E messages \in StoreLists, sid \in StoreIds \cup {NoSession},
          provider \in {"title", "fails"} : SaveSession(messages, sid, provider)
    \/ \E sid \in StoreIds : StoreDelete(sid)
    \/ StoreTick

SpecStore == Init /\ [][NextStore]_vars

(***************************************************************************)
(* Specification applying _sanitize_history to bounded message lists       *)
(***************************************************************************)
SanIds == 1..MaxSanIds

\* tool_calls lists of one or two calls with distinct ids
SanCalls ==
    { <<Call(i, "duckdb_query", "valid")>> : i \in SanIds }
    \cup { <<Call(p[1], "duckdb_query", "valid"), Call(p[2], "duckdb_query", "valid")>> :
             p \in {q \in SanIds \X SanIds : q[1] # q[2]} }

SanMessages ==
    { UserMessage(PlainPrompt), AssistantMessage("answer", <<>>) }
    \cup { AssistantMessage("", calls) : calls \in SanCalls }
    \cup { ToolMessage(i, "tool output") : i \in SanIds }

SanHistories == UNION { [1..n -> SanMessages] : n \in 0..MaxLen }

InitSanitize ==
    /\ EngineIdle
    /\ CoordIdle
    /\ RestIdle
    /\ san_history \in SanHistories
    /\ san_once = <<>>
    /\ san_twice = <<>>
    /\ san_stage = 0

SanitizeOnce ==
    /\ san_stage = 0
    /\ san_once' = _sanitize_history(san_history)
    /\ san_stage' = 1
    /\ UNCHANGED <<san_history, san_twice, engineVars, coordVars, restVars>>

SanitizeTwice ==
    /\ san_stage = 1
    /\ san_twice' = _sanitize_history(san_once)
    /\ san_stage' = 2
    /\ UNCHANGED <<san_history, san_once, engineVars, coordVars, restVars>>

NextSanitize ==
    \/ SanitizeOnce
    \/ SanitizeTwice

SpecSanitize == InitSanitize /\ [][NextSanitize]_vars

(***************************************************************************)
(* Specification of _ensure_agent called by concurrent request tasks,      *)
(* runtime.py lines 784-799                                                *)
(***************************************************************************)
\* a request task calls _ensure_agent
EnsureCall(r) ==
    /\ ensure_at[r] = "idle"
    /\ ensure_calls < MaxEnsureCalls
    /\ ensure_calls' = ensure_calls + 1
    /\ ensure_at' = [ensure_at EXCEPT ![r] = "called"]
    /\ ensure_got' = [ensure_got EXCEPT ![r] = NoAgent]
    /\ UNCHANGED <<_agent, agent_init_lock, creations>>
    /\ UNCHANGED <<engineVars, sanVars, coordVars, postVars, persistVars, streamVars,
                   storeVars>>

\* lines 785-786: the instance is returned when there is one; otherwise the
\* task goes on to take the lock
EnsureCheck(r) ==
    /\ ensure_at[r] = "called"
    /\ IF _agent # NoAgent
          THEN /\ ensure_at' = [ensure_at EXCEPT ![r] = "idle"]
               /\ ensure_got' = [ensure_got EXCEPT ![r] = _agent]
          ELSE /\ ensure_at' = [ensure_at EXCEPT ![r] = "waiting"]
               /\ UNCHANGED ensure_got
    /\ UNCHANGED <<_agent, agent_init_lock, ensure_calls, creations>>
    /\ UNCHANGED <<engineVars, sanVars, coordVars, postVars, persistVars, streamVars,
                   storeVars>>

\* line 788: async with self._agent_init_lock
EnsureAcquire(r) ==
    /\ ensure_at[r] = "waiting"
    /\ agent_init_lock = Free
    /\ agent_init_lock' = r
    /\ ensure_at' = [ensure_at EXCEPT ![r] = "locked"]
    /\ UNCHANGED <<_agent, ensure_got, ensure_calls, creations>>
    /\ UNCHANGED <<engineVars, sanVars, coordVars, postVars, persistVars, streamVars,
                   storeVars>>

\* EnsureCreate without the second look at _agent
EnsureCreateUnchecked(r, created) ==
    /\ ensure_at[r] = "locked"
    /\ agent_init_lock = r
    /\ IF created
          THEN /\ creations' = creations + 1
               /\ _agent' = creations + 1
               /\ ensure_got' = [ensure_got EXCEPT ![r] = creations + 1]
          ELSE UNCHANGED <<creations, _agent, ensure_got>>
    /\ agent_init_lock' = Free
    /\ ensure_at' = [ensure_at EXCEPT ![r] = "idle"]
    /\ UNCHANGED ensure_calls
    /\ UNCHANGED <<engineVars, sanVars, coordVars, postVars, persistVars, streamVars,
                   storeVars>>

\* lines 789-799: under the lock _agent is looked at again; when it is
\* still none create_duckdb_agent is called, which completes (created) or
\* raises; the lock is released and the instance returned, or the
\* exception leaves _ensure_agent.  create_duckdb_agent is synchronous: the
\* task does not give up control between the look and the assignment.
EnsureCreate(r, created) ==
    /\ ensure_at[r] = "locked"
    /\ agent_init_lock = r
    /\ IF _agent # NoAgent
          THEN /\ ensure_got' = [ensure_got EXCEPT ![r] = _agent]
               /\ UNCHANGED <<creations, _agent>>
          ELSE IF created
          THEN /\ creations' = creations + 1
               /\ _agent' = creations + 1
               /\ ensure_got' = [ensure_got EXCEPT ![r] = creations + 1]
          ELSE UNCHANGED <<creations, _agent, ensure_got>>
    /\ agent_init_lock' = Free
    /\ ensure_at' = [ensure_at EXCEPT ![r] = "idle"]
    /\ UNCHANGED ensure_calls
    /\ UNCHANGED <<engineVars, sanVars, coordVars, postVars, persistVars, streamVars,
                   storeVars>>

InitEnsure ==
    /\ EngineIdle
    /\ SanIdle
    /\ CoordIdle
    /\ RestIdle

NextEnsure ==
    \/ \E r \in Reqs : EnsureCall(r)
    \/ \E r \in Reqs : EnsureCheck(r)
    \/ \E r \in Reqs : EnsureAcquire(r)
    \/ \E r \in Reqs, created \in BOOLEAN : EnsureCreate(r, created)

SpecEnsure == InitEnsure /\ [][NextEnsure]_vars

(***************************************************************************)
(* Post-processing of the final answer, agent.py lines 553-763.            *)
(* The answer is a sequence of pieces: plain text, a fenced chart block    *)
(* with its JSON, a Markdown table, a fenced SQL block with its statement, *)
(* a [PLAN:...] marker.                                                    *)
(***************************************************************************)
\* longest model answer and longest tool trace in SpecPost
MaxAnswer == 2
MaxTrace == 2

Piece(kind, body) == [kind |-> kind, body |-> body]

\* the chart JSON as a model may repeat it: without the "sql" field
Stripped == "stripped"
NoSql == ""
NoPlan == ""
NoJson == ""

HasPiece(text, kind) == \E i \in 1..Len(text) : text[i].kind = kind

FirstPiece(text, kind) ==
    CHOOSE i \in 1..Len(text) :
        /\ text[i].kind = kind
        /\ \A j \in 1..(i - 1) : text[j].kind # kind

\* the largest element of a non-empty set of numbers
Largest(S) == CHOOSE x \in S : \A y \in S : y <= x

\* conversation_history as post-processing finds it, besides the tool
\* messages of the run: the chart data an earlier run left in it, and how
\* many of the run's first tool messages _trim_conversation_history
\* (241-259, called at 343) has dropped
History(earlier, trimmed) == [earlier |-> earlier, trimmed |-> trimmed]

\* the calls of the run whose tool message is still in the history
Kept(trace, history) == (history.trimmed + 1)..Len(trace)

\* lines 554-571: the content of the last tool message of the whole
\* history that is chart data
chart_json(trace, history) ==
    LET charts == {i \in Kept(trace, history) :
                      trace[i].name = "duckdb_chart" /\ trace[i].ok}
    IN  IF charts # {} THEN trace[Largest(charts)].sql ELSE history.earlier

\* lines 573-588: the chart block is put in front of an answer that has
\* none; a chart block without the "sql" field is replaced by the full JSON
ChartPass(text, trace, history) ==
    LET chart_tool_used == \E i \in 1..Len(trace) : trace[i].name = "duckdb_chart"
        json == chart_json(trace, history)
        has_sql_field == \E i \in 1..Len(text) :
                            text[i].kind = "chart" /\ text[i].body # Stripped
    IN  IF ~chart_tool_used \/ json = NoJson THEN text
        ELSE IF ~HasPiece(text, "chart") THEN <<Piece("chart", json)>> \o text
        ELSE IF ~has_sql_field
                THEN [text EXCEPT ![FirstPiece(text, "chart")] = Piece("chart", json)]
        ELSE text

\* lines 700-727: among the tool messages in the history that answer a
\* duckdb_query call of this run, the one with the most data rows, the
\* later one on a tie
best_query(trace, history) ==
    LET queries == {i \in Kept(trace, history) : trace[i].name = "duckdb_query"}
        max_rows == Largest({trace[i].rows : i \in queries})
    IN  Largest({i \in queries : trace[i].rows = max_rows})

\* the calls of the run that the table rule can look at
QueriesKept(trace, history) ==
    {i \in Kept(trace, history) : trace[i].name = "duckdb_query"}

\* TablePass without the look for the table in the answer
TablePassAlways(text, trace, history) ==
    IF QueriesKept(trace, history) = {} THEN text
    ELSE LET best == trace[best_query(trace, history)]
         IN  IF best.rows > 0 THEN Append(text, Piece("table", best.sql)) ELSE text

\* lines 686-745: the Markdown table of the best query output is appended
\* unless the answer holds it already
TablePass(text, trace, history) ==
    IF QueriesKept(trace, history) = {} THEN text
    ELSE LET best == trace[best_query(trace, history)]
             md_table == Piece("table", best.sql)
         IN  IF best.rows > 0 /\ md_table \notin Range(text)
                THEN Append(text, md_table)
                ELSE text

\* lines 293-295, 478-480: the sql and plan arguments of the last
\* duckdb_query call of the run; no other tool sets them
_last_sql_query(trace) ==
    LET queries == {i \in 1..Len(trace) : trace[i].name = "duckdb_query"}
    IN  IF queries = {} THEN NoSql ELSE trace[Largest(queries)].sql

_last_implementation_plan(trace) ==
    LET queries == {i \in 1..Len(trace) : trace[i].name = "duckdb_query"}
    IN  IF queries = {} THEN NoPlan ELSE trace[Largest(queries)].plan

\* lines 747-763: the SQL block is put in front of an answer that has
\* none, the plan marker in front of the first SQL block
SqlPass(text, trace) ==
    LET sql == _last_sql_query(trace)
        plan == _last_implementation_plan(trace)
        has_plan == HasPiece(text, "plan")
        with_sql == IF HasPiece(text, "sql") THEN text
                    ELSE <<Piece("sql", sql)>> \o text
        sql_block_start == FirstPiece(with_sql, "sql")
    IN  IF sql = NoSql THEN text
        ELSE IF plan # NoPlan /\ ~has_plan
                THEN SubSeq(with_sql, 1, sql_block_start - 1)
                        \o <<Piece("plan", plan)>>
                        \o SubSeq(with_sql, sql_block_start, Len(with_sql))
        ELSE with_sql

PostProcess(text, trace, history) ==
    SqlPass(TablePass(ChartPass(text, trace, history), trace, history), trace)

\* what the model may write in its answer
AnswerPieces ==
    { Piece("text", "t"), Piece("chart", Stripped), Piece("sql", "q1"),
      Piece("plan", "p"), Piece("table", "q1") }

\* the tool calls of a run: name, sql and plan arguments, data rows of the
\* output, and whether the tool gave its regular output
TraceCalls ==
    { [name |-> "duckdb_query", sql |-> q, plan |-> pl, rows |-> n, ok |-> TRUE] :
          q \in {"q1", "q2"}, pl \in {NoPlan, "p"}, n \in 0..1 }
    \cup { [name |-> "duckdb_chart", sql |-> "c1", plan |-> NoPlan, rows |-> 0, ok |-> b] :
              b \in BOOLEAN }
    \cup { [name |-> "duckdb_schema", sql |-> NoSql, plan |-> NoPlan, rows |-> 0,
            ok |-> TRUE] }

\* the histories a run with this trace can end with: the tool message of
\* the last call is never trimmed (it is at the end of the history when the
\* last trim is made), and what an earlier run left goes before anything
\* of this run
HistoriesOf(trace) ==
    { History(e, 0) : e \in {NoJson, "c0"} }
    \cup { History(NoJson, n) : n \in 1..(Len(trace) - 1) }

InitPost ==
    /\ EngineIdle
    /\ SanIdle
    /\ CoordIdle
    /\ EnsureIdle
    /\ PersistIdle
    /\ StreamIdle
    /\ StoreIdle
    /\ post_answer \in UNION {[1..n -> AnswerPieces] : n \in 0..MaxAnswer}
    /\ post_trace \in UNION {[1..n -> TraceCalls] : n \in 0..MaxTrace}
    /\ post_history \in HistoriesOf(post_trace)
    /\ post_once = <<>>
    /\ post_twice = <<>>
    /\ post_stage = 0

\* run post-processes the model's answer and returns it
PostOnce ==
    /\ post_stage = 0
    /\ post_once' = PostProcess(post_answer, post_trace, post_history)
    /\ post_stage' = 1
    /\ UNCHANGED <<post_answer, post_trace, post_history, post_twice>>
    /\ UNCHANGED <<engineVars, sanVars, coordVars, ensureVars, persistVars, streamVars,
                   storeVars>>

\* the rules applied to their own result, with the same tool trace
PostTwice ==
    /\ post_stage = 1
    /\ post_twice' = PostProcess(post_once, post_trace, post_history)
    /\ post_stage' = 2
    /\ UNCHANGED <<post_answer, post_trace, post_history, post_once>>
    /\ UNCHANGED <<engineVars, sanVars, coordVars, ensureVars, persistVars, streamVars,
                   storeVars>>

NextPost ==
    \/ PostOnce
    \/ PostTwice

SpecPost == InitPost /\ [][NextPost]_vars

(***************************************************************************)
(* The user message of a chat request: built by run_chat (856-873) and     *)
(* run_chat_stream (956-991), appended by agent.run (304-324), stored by   *)
(* the save of the session (878-913, 1073-1106).  A text is a sequence of  *)
(* characters; "[Context:" and the letters stand for longer stretches.     *)
(***************************************************************************)
\* longest message text in SpecPersist
MaxText == 3

\* "[Context: You are currently working with ... in tool calls.]"
ContextBlock == <<"[Context:", "c", "]">>
\* f"\n[Project Instructions: {query_instructions}]\n"
InstructionsText == <<"\n", "[", "i", "]", "\n">>
\* f"\n\n[User uploaded file: {filename}]\n{processed_content}"
FileText == <<"\n", "\n", "[", "f", "]", "\n", "f">>

\* what the user sent: the message and the text of the uploaded file
SentText(input) == input.message \o (IF input.file THEN FileText ELSE <<>>)

\* enhanced_message; run_chat reads no project instructions
enhanced_message(input) ==
    IF ~input.project THEN
        \* run_chat keeps the file text, run_chat_stream falls back to message
        IF input.op = "run_chat" THEN SentText(input) ELSE input.message
    ELSE ContextBlock
            \o (IF input.op = "run_chat_stream" /\ input.instructions
                   THEN InstructionsText ELSE <<>>)
            \o <<"\n", "\n">>
            \o SentText(input)

\* agent.run: with images the content is a list of parts, the text first
user_content(input) ==
    IF input.op = "run_chat_stream" /\ input.images
       THEN Content("json", enhanced_message(input))
       ELSE Content("str", enhanced_message(input))

\* content.find("]\n\n"): the first position of the three characters, or 0
FindContextEnd(text) ==
    LET hits == {i \in 1..(Len(text) - 2) :
                    text[i] = "]" /\ text[i + 1] = "\n" /\ text[i + 2] = "\n"}
    IN  IF hits = {} THEN 0 ELSE CHOOSE i \in hits : \A j \in hits : i <= j

\* the strip of the save loop: only a string that starts with "[Context:"
\* is cut, behind the first "]\n\n"; the regular expression of the fallback
\* needs the same three characters and removes nothing when find found none
StripPrefix(content) ==
    IF content.kind = "str" /\ content.text # <<>> /\ content.text[1] = "[Context:"
       THEN LET context_end == FindContextEnd(content.text)
            IN  IF context_end # 0
                   THEN Content("str", SubSeq(content.text, context_end + 3,
                                              Len(content.text)))
                   ELSE content
       ELSE content

MessageTexts == UNION {[1..n -> {"m", "]", "\n"}] : n \in 1..MaxText}

PersistInputs ==
    { [op |-> o, message |-> m, project |-> pr, instructions |-> ins,
       images |-> im, file |-> f] :
          o \in ChatOps, m \in MessageTexts, pr \in BOOLEAN, ins \in BOOLEAN,
          im \in BOOLEAN, f \in BOOLEAN }

\* the requests that store a session: a project is named; run_chat has
\* neither images nor project instructions
InitPersist ==
    /\ EngineIdle
    /\ SanIdle
    /\ CoordIdle
    /\ EnsureIdle
    /\ PostIdle
    /\ StreamIdle
    /\ StoreIdle
    /\ persist_input \in {input \in PersistInputs :
                             /\ input.project
                             /\ input.op = "run_chat"
                                   => ~input.images /\ ~input.instructions}
    /\ persist_content = Content("str", <<>>)
    /\ persist_stored = Content("str", <<>>)
    /\ persist_stage = 0

\* the request builds enhanced_message and agent.run appends the message
AppendUserMessage ==
    /\ persist_stage = 0
    /\ persist_content' = user_content(persist_input)
    /\ persist_stage' = 1
    /\ UNCHANGED <<persist_input, persist_stored>>
    /\ UNCHANGED <<engineVars, sanVars, coordVars, ensureVars, postVars, streamVars,
                   storeVars>>

\* the save loop turns the message into a ChatMessage
PersistUserMessage ==
    /\ persist_stage = 1
    /\ persist_stored' = StripPrefix(persist_content)
    /\ persist_stage' = 2
    /\ UNCHANGED <<persist_input, persist_content>>
    /\ UNCHANGED <<engineVars, sanVars, coordVars, ensureVars, postVars, streamVars,
                   storeVars>>

NextPersist ==
    \/ AppendUserMessage
    \/ PersistUserMessage

SpecPersist == InitPersist /\ [][NextPersist]_vars

(***************************************************************************)
(* The event stream of run_chat_stream, runtime.py lines 993-1220.         *)
(* agent.run executes in a worker thread; its progress callback and its    *)
(* completion reach the event loop through call_soon_threadsafe, which     *)
(* keeps their order.  The generator runs on the event loop and gives up   *)
(* control only at an await or a yield.                                    *)
(***************************************************************************)
\* status messages one run emits at most in SpecStream
MaxStatus == 2

StatusEvent(n) == [type |-> "status", n |-> n]
ResponseEvent == [type |-> "response", n |-> 0]
DoneEvent == [type |-> "done", n |-> 0]
ErrorEvent == [type |-> "error", n |-> 0]

streamRest == <<engineVars, sanVars, coordVars, ensureVars, postVars, persistVars,
                storeVars>>

\* lines 994-1018: the queue, the callback, agent_task and queue_task
StreamSetup ==
    /\ gen = "idle"
    /\ worker' = "running"
    /\ queue_task' = PendingTask
    /\ gen' = "wait"
    /\ UNCHANGED <<emitted, ready, status_queue, agent_task_done, events>>
    /\ UNCHANGED streamRest

\* on_step_callback, lines 997-998, called in the worker thread
WorkerEmits ==
    /\ worker = "running"
    /\ emitted < MaxStatus
    /\ emitted' = emitted + 1
    /\ ready' = Append(ready, [run |-> "put", n |-> emitted + 1])
    /\ UNCHANGED <<worker, status_queue, queue_task, agent_task_done, gen, events>>
    /\ UNCHANGED streamRest

\* agent.run returns or raises in the worker thread (to_thread)
WorkerEnds(how) ==
    /\ worker = "running"
    /\ worker' = how
    /\ ready' = Append(ready, [run |-> "set_result", n |-> 0])
    /\ UNCHANGED <<emitted, status_queue, queue_task, agent_task_done, gen, events>>
    /\ UNCHANGED streamRest

\* the event loop runs the next callback the thread handed over:
\* status_queue.put_nowait(item), or the completion of agent_task
LoopRuns ==
    /\ ready # <<>>
    /\ ready' = Tail(ready)
    /\ IF Head(ready).run = "put"
          THEN /\ status_queue' = Append(status_queue, Head(ready).n)
               /\ UNCHANGED agent_task_done
          ELSE /\ agent_task_done' = TRUE
               /\ UNCHANGED status_queue
    /\ UNCHANGED <<worker, emitted, queue_task, gen, events>>
    /\ UNCHANGED streamRest

\* queue_task, pending in status_queue.get(), takes the first item
GetCompletes ==
    /\ queue_task = PendingTask
    /\ status_queue # <<>>
    /\ queue_task' = DoneTask(Head(status_queue))
    /\ status_queue' = Tail(status_queue)
    /\ UNCHANGED <<worker, emitted, ready, agent_task_done, gen, events>>
    /\ UNCHANGED streamRest

\* lines 1020-1042: asyncio.wait returns; the item of a finished
\* queue_task is yielded; otherwise agent_task is done, the loop is left
\* and the pending queue_task cancelled (its item, if any, stays queued)
GenWait ==
    /\ gen = "wait"
    /\ queue_task.state = "done" \/ agent_task_done
    /\ IF queue_task.state = "done"
          THEN /\ events' = Append(events, StatusEvent(queue_task.item))
               /\ gen' = "yielded"
               /\ UNCHANGED queue_task
          ELSE /\ queue_task' = CancelledTask
               /\ gen' = "drain"
               /\ UNCHANGED events
    /\ UNCHANGED <<worker, emitted, ready, status_queue, agent_task_done>>
    /\ UNCHANGED streamRest

\* lines 1030-1042 after the yield: a new queue_task; when agent_task is
\* done the loop is left and the new task cancelled before it ever ran
GenResume ==
    /\ gen = "yielded"
    /\ IF agent_task_done
          THEN queue_task' = CancelledTask /\ gen' = "drain"
          ELSE queue_task' = PendingTask /\ gen' = "wait"
    /\ UNCHANGED <<worker, emitted, ready, status_queue, agent_task_done, events>>
    /\ UNCHANGED streamRest

\* GenDrain leaving the queue as it is
GenDrainSkips ==
    /\ gen = "drain"
    /\ gen' = "await_agent"
    /\ UNCHANGED <<status_queue, events>>
    /\ UNCHANGED <<worker, emitted, ready, queue_task, agent_task_done>>
    /\ UNCHANGED streamRest

\* lines 1044-1046: what is left in the queue is yielded
GenDrain ==
    /\ gen = "drain"
    /\ IF status_queue # <<>>
          THEN /\ events' = Append(events, StatusEvent(Head(status_queue)))
               /\ status_queue' = Tail(status_queue)
               /\ UNCHANGED gen
          ELSE /\ gen' = "await_agent"
               /\ UNCHANGED <<status_queue, events>>
    /\ UNCHANGED <<worker, emitted, ready, queue_task, agent_task_done>>
    /\ UNCHANGED streamRest

\* lines 1048-1115, 1170-1220: the result of agent_task: the session is
\* saved and the response yielded (a failing save becomes the error
\* event); the corrupted-conversation error starts the retry, which has no
\* callback; any other exception becomes the error event
GenResult(saved) ==
    /\ gen = "await_agent"
    /\ IF worker = "returned" /\ saved
          THEN events' = Append(events, ResponseEvent) /\ gen' = "responded"
          ELSE IF worker = "corrupted"
          THEN UNCHANGED events /\ gen' = "retrying"
          ELSE events' = Append(events, ErrorEvent) /\ gen' = "closed"
    /\ UNCHANGED <<worker, emitted, ready, status_queue, queue_task, agent_task_done>>
    /\ UNCHANGED streamRest

\* lines 1058-1061, 1122-1220: the retried run returns, raises or is timed
\* out by wait_for
RetryEnds(how) ==
    /\ gen = "retrying"
    /\ IF how = "returned"
          THEN events' = Append(events, ResponseEvent) /\ gen' = "responded"
          ELSE events' = Append(events, ErrorEvent) /\ gen' = "closed"
    /\ UNCHANGED <<worker, emitted, ready, status_queue, queue_task, agent_task_done>>
    /\ UNCHANGED streamRest

\* lines 1117-1119: the completion signal after the response
GenDone ==
    /\ gen = "responded"
    /\ events' = Append(events, DoneEvent)
    /\ gen' = "closed"
    /\ UNCHANGED <<worker, emitted, ready, status_queue, queue_task, agent_task_done>>
    /\ UNCHANGED streamRest

InitStream ==
    /\ EngineIdle
    /\ SanIdle
    /\ CoordIdle
    /\ RestIdle

NextStream ==
    \/ StreamSetup
    \/ WorkerEmits
    \/ \E how \in {"returned", "corrupted", "failed"} : WorkerEnds(how)
    \/ LoopRuns
    \/ GetCompletes
    \/ GenWait
    \/ GenResume
    \/ GenDrain
    \/ \E saved \in BOOLEAN : GenResult(saved)
    \/ \E how \in {"returned", "failed", "timeout"} : RetryEnds(how)
    \/ GenDone

SpecStream == InitStream /\ [][NextStream]_vars

(***************************************************************************)
(* Well-formedness of a message list                                       *)
(***************************************************************************)
CallIds(m) == {m.tool_calls[k].id : k \in 1..Len(m.tool_calls)}

\* call id of the assistant message at i is answered by a tool message that
\* follows it before any non-tool message
AnsweredAt(h, i, id) ==
    \E j \in (i + 1)..Len(h) :
        /\ h[j].role = "tool"
        /\ h[j].tool_call_id = id
        /\ \A m \in (i + 1)..j : h[m].role = "tool"

NoUnansweredCall(h) ==
    \A i \in 1..Len(h) :
        h[i].role = "assistant" => \A id \in CallIds(h[i]) : AnsweredAt(h, i, id)

\* C7: the result of _sanitize_history has no unanswered tool call; a list
\* without unanswered calls is returned unchanged; a list ending in an
\* assistant message with one call ends, once sanitized, with that message
\* and the one synthesized tool message for its id, and when nothing else
\* was open that message is all the list gains
C7_SanitizeClosesCalls ==
    san_stage >= 1 =>
        /\ NoUnansweredCall(san_once)
        /\ NoUnansweredCall(san_history) => san_once = san_history
        /\ \A n \in 1..Len(san_history) :
              ( /\ n = Len(san_history)
                /\ san_history[n].role = "assistant"
                /\ Len(san_history[n].tool_calls) = 1
                /\ NoUnansweredCall(SubSeq(san_history, 1, n - 1)) )
              => san_once = Append(san_history,
                                   ToolMessage(san_history[n].tool_calls[1].id,
                                               LostContent))
        /\ ( /\ san_history # <<>>
              /\ san_history[Len(san_history)].role = "assistant"
              /\ Len(san_history[Len(san_history)].tool_calls) = 1 )
           => /\ Len(san_once) >= 2
              /\ san_once[Len(san_once) - 1] = san_history[Len(san_history)]
              /\ san_once[Len(san_once)] =
                    ToolMessage(san_history[Len(san_history)].tool_calls[1].id,
                                LostContent)

C7_Witness ==
    /\ san_stage = 1
    /\ Len(san_history) = MaxLen
    /\ san_history[MaxLen].role = "assistant"
    /\ Len(san_history[MaxLen].tool_calls) = 1
    /\ san_history[1].role = "assistant"
    /\ san_history[1].tool_calls # <<>>
    /\ Len(san_once) > Len(san_history)

\* C9: applying _sanitize_history to its own result changes nothing
C9_SanitizeIdempotent ==
    san_stage = 2 => san_twice = san_once

C9_Witness ==
    /\ san_stage = 2
    /\ Len(san_once) > Len(san_history) + 1
    /\ san_twice = san_once

(***************************************************************************)
(* Claims about the engine, checked under Spec                             *)
(***************************************************************************)
\* the message list handed to the provider is conversation_history itself
Submitting == pc = "provider"

\* every tool message names a call of an earlier assistant message
ToolsReferToEarlierCalls(h) ==
    \A j \in 1..Len(h) :
        h[j].role = "tool" =>
            /\ h[j].tool_call_id # NoId
            /\ \E i \in 1..(j - 1) :
                  h[i].role = "assistant" /\ h[j].tool_call_id \in CallIds(h[i])

\* C1: at every submission to the provider every tool message of the
\* submitted list carries the id of a tool call of an earlier assistant
\* message of that list
C1_SubmittedToolsMatched ==
    Submitting => ToolsReferToEarlierCalls(conversation_history)

\* C5: a dispatch step never ends run with an exception: it appends a tool
\* message for the call's id and goes on with the next call or submission
C5_DispatchNeverRaises ==
    [][ pc = "dispatch" =>
          /\ pc' \in {"dispatch", "loop"}
          /\ conversation_history' # conversation_history
          /\ LET added == conversation_history'[Len(conversation_history')]
             IN  added.role = "tool" /\ added.tool_call_id = Head(todo).id ]_<<pc, conversation_history>>

\* the position of the user message this run appended, 0 when the trim
\* has dropped it with everything before it
RunStart(h) ==
    IF \E i \in 1..Len(h) : h[i].role = "user"
       THEN Largest({i \in 1..Len(h) : h[i].role = "user"})
       ELSE 0

\* C36: when run has returned or raised, every tool call of an assistant
\* message appended during the run is answered by a tool message with its
\* id: the run leaves no unanswered tool call behind
C36_RunLeavesNoUnansweredCall ==
    pc \in {"returned", "raised"}
       => \A i \in (RunStart(conversation_history) + 1)..Len(conversation_history) :
              conversation_history[i].role = "assistant"
                 => \A id \in CallIds(conversation_history[i]) :
                        AnsweredAt(conversation_history, i, id)

\* C6: after a trim at most max_history_messages non-system messages are
\* left, they are the most recent ones in their order, and the system
\* messages are kept in their order
C6_TrimBoundsHistory ==
    Submitting =>
        /\ Len(NonSystemOf(conversation_history)) <= MaxHistory
        /\ NonSystemOf(conversation_history) = Last(NonSystemOf(beforeTrim), MaxHistory)
        /\ SystemOf(conversation_history) = SystemOf(beforeTrim)

\* the history at this point is what _sanitize_history returned for the
\* stored session
JustRestored ==
    /\ pc = "prepared"
    /\ ~request.retried
    /\ request.session_id # NoSession
    /\ ~request.reset
    /\ get_session(request.session_id).exists

\* every tool message names a call of the closest earlier non-tool message
ToolsFollowTheirCall(h) ==
    \A j \in 1..Len(h) :
        h[j].role = "tool" =>
            \E i \in 1..(j - 1) :
                /\ h[i].role = "assistant"
                /\ h[j].tool_call_id \in CallIds(h[i])
                /\ \A m \in (i + 1)..(j - 1) : h[m].role = "tool"

\* C8: in the result of _sanitize_history every tool message refers to a
\* call of an earlier assistant message with only tool messages in between
C8_SanitizedToolsHaveCalls ==
    JustRestored => ToolsFollowTheirCall(conversation_history)

\* C10: at every submission the conversation holds the system message
\* exactly once, as its first message
C10_SystemMessageFirstOnce ==
    Submitting =>
        /\ conversation_history # <<>>
        /\ conversation_history[1] = SystemMessage
        /\ Len(SystemOf(conversation_history)) = 1

\* C12: a chat request whose engine run fails with the provider's
\* corrupted-conversation rejection, and which has not retried yet, runs
\* the engine again with reset=true; a failed retry ends the request
C12_CorruptedRunRetriedOnce ==
    [][ (pc = "raised" /\ result = CorruptedError /\ pc' # pc)
           => IF request.retried
                 THEN pc' = "idle"
                 ELSE pc' = "prepared" /\ request'.reset /\ request'.retried ]_vars

\* C13: whenever a chat request ends, with a reply or with an error, the
\* conversation's messages are stored in a session (the supplied one when it
\* exists, a new one otherwise) and what is delivered carries that session's id
C13_SessionPersistedOnEveryOutcome ==
    [][ (pc \in {"returned", "raised"} /\ pc' = "idle")
           => \E s \in SessionIds :
                 /\ sessions'[s].exists
                 /\ sessions'[s].messages = SessionMessages(conversation_history')
                 /\ reply'.session_id = s
                 /\ get_session(request.session_id).exists => s = request.session_id ]_vars

\* the run has just put the new user message on the conversation
JustStarted == pc = "loop" /\ iteration = 0 /\ api_calls = 0 /\ ~request.retried

\* C14: with a session id and reset false, the conversation the run starts
\* on is, system message aside, the sanitized stored messages of that
\* session followed by the new user message
C14_RunsOnRestoredSessionOnly ==
    (JustStarted /\ request.session_id # NoSession /\ ~request.reset)
        => NonSystemOf(conversation_history) =
              Append(_sanitize_history(
                        RestoredHistory(get_session(request.session_id).messages)),
                     UserMessage(EnhancedPrompt))

\* C16: when run has ended, by return or by exception, execution_metadata
\* holds the api_calls and tools_used of that run
C16_MetadataDescribesThisRun ==
    pc \in {"returned", "raised"}
        => /\ execution_metadata.api_calls = api_calls
           /\ execution_metadata.tools_used = tools_used

(***************************************************************************)
(* Claims about run itself, checked under SpecRun and SpecRunFair          *)
(***************************************************************************)
\* C15: the flag is cleared only at the top of an iteration, in a step that
\* submits nothing, dispatches nothing and returns the fixed string; a run
\* at the top of an iteration with the flag set takes that step; a dispatch
\* with the flag set still handles its call and leaves the flag set
C15_CancelOnlyAtIterationTop ==
    [][ /\ (cancelled /\ ~cancelled')
           => /\ pc = "loop" /\ iteration < MaxIterations
              /\ pc' = "returned"
              /\ result' = CancelledAnswer
              /\ UNCHANGED <<conversation_history, api_calls, tools_used, todo>>
        /\ (pc = "loop" /\ iteration < MaxIterations /\ cancelled /\ pc' # pc)
           => ~cancelled' /\ pc' = "returned" /\ result' = CancelledAnswer
        /\ (pc \in {"provider", "dispatch"} /\ cancelled)
           => /\ cancelled'
              /\ pc' # "returned" \/ result' # CancelledAnswer
        /\ (pc = "dispatch" /\ cancelled /\ pc' # pc /\ ArgumentsParse(Head(todo)))
           => /\ pc' = "loop"
              /\ Len(conversation_history') = Len(conversation_history) + 1
        /\ (pc = "dispatch" /\ cancelled /\ Len(todo) > 1 /\ ArgumentsParse(Head(todo))
              /\ todo' # todo)
           => pc' = "dispatch" /\ todo' = Tail(todo) ]_vars

\* the flag is set in the middle of an iteration with two tool calls: one
\* call has been dispatched, the other is still to be dispatched
C15_Witness ==
    /\ pc = "dispatch"
    /\ cancelled
    /\ Len(tools_used) = 1
    /\ Len(todo) = 1
    /\ ArgumentsParse(Head(todo))

\* C35: the cancellation flag is cleared by the check at the top of an
\* iteration and by nothing else: set while no run is in progress, or after
\* the last check of a run, it stays set, and the next run appends its user
\* message, makes no submission and returns the cancellation string at its
\* first iteration
C35_StaleCancelEndsNextRun ==
    [][ /\ (cancelled /\ ~cancelled')
           => pc = "loop" /\ pc' = "returned" /\ result' = CancelledAnswer
        /\ (pc = "prepared" /\ cancelled /\ pc' # pc)
           => /\ pc' = "loop"
              /\ cancelled'
              /\ iteration' = 0
              /\ api_calls' = 0
              /\ conversation_history' # <<>>
              /\ conversation_history'[Len(conversation_history')]
                    = UserMessage(EnhancedPrompt)
        /\ (pc = "loop" /\ iteration = 0 /\ cancelled /\ pc' # pc)
           => /\ pc' = "returned"
              /\ result' = CancelledAnswer
              /\ api_calls' = api_calls
              /\ conversation_history' = conversation_history ]_vars

\* the flag was left set by the first run or set between the runs, and the
\* second run has returned the cancellation string without a submission
C35_Witness ==
    /\ runs = 1
    /\ pc = "returned"
    /\ result = CancelledAnswer
    /\ api_calls = 0
    /\ iteration = 0
    /\ Len(conversation_history) > 2

\* C17: the retry count of a submission starts at 0, grows by one per
\* rate-limit signal and never passes max_retries; the run ends with the
\* rate-limit error only out of the attempt after max_retries retries
C17_RateLimitRetriedThreeTimes ==
    [][ /\ (pc = "loop" /\ pc' = "provider") => retry_count' = 0
        /\ (pc' = "provider") => retry_count' <= max_retries
        /\ (pc = "provider" /\ pc' = "provider" /\ retry_count' # retry_count)
           => /\ retry_count' = retry_count + 1
              /\ UNCHANGED <<conversation_history, api_calls, iteration>>
        /\ (pc = "provider" /\ pc' = "raised" /\ result' = RateLimitFatal)
           => retry_count = max_retries ]_vars

\* the second submission of a run is in its fourth attempt
C17_Witness ==
    /\ pc = "provider"
    /\ retry_count = max_retries
    /\ api_calls = 2

C26_CallsDispatchedInOrder ==
    /\ pc \in {"loop", "provider"} => todo = <<>>
    /\ (pc = "dispatch" \/ (pc = "loop" /\ iteration > 0))
          => \E k \in 0..Len(conversation_history) :
                LET n == Len(conversation_history)
                IN  /\ n - k >= 1
                    /\ conversation_history[n - k].role = "assistant"
                    /\ LET calls == conversation_history[n - k].tool_calls
                       IN  /\ Len(calls) = k + Len(todo)
                           /\ Len(calls) > 0
                           /\ \A i \in 1..k :
                                 /\ conversation_history[n - k + i].role = "tool"
                                 /\ conversation_history[n - k + i].tool_call_id
                                       = calls[i].id
                           /\ \A i \in 1..Len(todo) : todo[i] = calls[k + i]

\* an iteration with two calls is over: both tool messages are in place
C26_Witness ==
    /\ pc = "loop"
    /\ iteration = 1
    /\ Len(tools_used) = 2
    /\ Len(conversation_history) >= 3
    /\ conversation_history[Len(conversation_history)].role = "tool"
    /\ conversation_history[Len(conversation_history) - 1].role = "tool"

\* C28 as stated: a connection failure ends the run at once with the
\* error naming the endpoint, the failed attempt being the only provider
\* attempt of that submission, and the history is left as it was
C28_ConnectionFailureAfterOneAttempt ==
    [][ ProviderConnectionError
           => /\ pc' = "raised"
              /\ result' = ConnectionFatal
              /\ retry_count = 0
              /\ conversation_history' = conversation_history ]_vars

\* C28 amended: a connection failure ends the run at once with the error
\* naming the endpoint: no attempt follows the failed one (attempts
\* answered by a rate-limit signal may have preceded it, at most
\* max_retries of them), and the history is left as it was
C28_ConnectionFailureNotRetried ==
    [][ ProviderConnectionError
           => /\ pc' = "raised"
              /\ result' = ConnectionFatal
              /\ retry_count <= max_retries
              /\ api_calls' = api_calls
              /\ conversation_history' = conversation_history ]_vars

\* the second submission of a run failed to connect after one rate-limit
\* retry: the history still ends with the tool message of the iteration
\* before
C28_Witness ==
    /\ pc = "raised"
    /\ result = ConnectionFatal
    /\ api_calls = 2
    /\ conversation_history[Len(conversation_history)].role = "tool"

\* C27: a call whose name is not a registered tool does not abort the
\* run: its dispatch appends the tool message "Unknown function" with the
\* call's id, and the run goes on with the remaining calls of the
\* iteration or with the next iteration
C27_UnknownToolDoesNotAbort ==
    [][ (pc = "dispatch" /\ todo # <<>> /\ Head(todo).name \notin RegisteredTools
            /\ todo' # todo)
           => /\ pc' = IF Tail(todo) = <<>> THEN "loop" ELSE "dispatch"
              /\ todo' = Tail(todo)
              /\ conversation_history' =
                    Append(conversation_history,
                           ToolMessage(Head(todo).id, "Unknown function")) ]_vars

\* C25: the progress callback is purely observational: whatever the
\* callback does when it is called, failing included, the step run takes is
\* a step it takes without a callback, so that answer, history and
\* metadata are the same
C25_CallbackObservational ==
    [][ (\E where \in CallbackSites : StepCallbackRaises(where))
           => \/ RunBegin
              \/ \E handler \in {"returns", "raises"} : Dispatch(handler) ]_vars

(***************************************************************************)
(* Claim about the queue for _agent_run_lock, checked under SpecLock       *)
(***************************************************************************)
\* C21: a chat request has released _agent_run_lock whenever it is over,
\* whichever way it ended (reply, timeout, error event, exception), and
\* every chat request waiting for the lock acquires it in the end
C21_RunLockReleasedAndAcquired ==
    /\ [](\A r \in Reqs : at[r] = "done" => agent_run_lock # r)
    /\ \A r \in Reqs : (at[r] = "waiting") ~> (agent_run_lock = r)

\* a streaming request ended by the timeout of its retried run, whose
\* worker thread is still running, and another request holds the lock
C21_Witness ==
    \E r, q \in Reqs :
        /\ r # q
        /\ at[r] = "done"
        /\ r \in threads
        /\ agent_run_lock = q
        /\ at[q] = "awaiting"

(***************************************************************************)
(* Claim about _ensure_agent, checked under SpecEnsure                     *)
(***************************************************************************)
\* C29: create_duckdb_agent completes at most once, whatever the
\* interleaving of the tasks calling _ensure_agent, and every call that
\* returns an instance returns the one instance held in _agent
C29_AgentCreatedAtMostOnce ==
    /\ creations <= 1
    /\ \A r \in Reqs : ensure_got[r] # NoAgent => ensure_got[r] = _agent
    /\ \A r, q \in Reqs :
          (ensure_got[r] # NoAgent /\ ensure_got[q] # NoAgent)
             => ensure_got[r] = ensure_got[q]

\* two first requests both found _agent empty; one has created the
\* instance and returned it, the other holds the lock and is about to look
\* again
C29_Witness ==
    \E r, q \in Reqs :
        /\ r # q
        /\ ensure_got[r] # NoAgent
        /\ ensure_at[q] = "locked"
        /\ creations = 1

(***************************************************************************)
(* Claims about chat requests and their sessions, checked under SpecChat   *)
(***************************************************************************)
\* the user messages of a message list
UserCount(messages) ==
    Cardinality({i \in 1..Len(messages) : messages[i].role = "user"})

\* C37: a chat request with reset=false and no stored session (no id, or
\* an id nothing is stored under) leaves the agent's conversation as the
\* previous run left it, run appends its user message to that conversation,
\* and the session saved at the end is the whole of the agent's
\* conversation (system messages aside), earlier messages included
C37_RunsOnTopOfPreviousConversation ==
    [][ /\ (pc = "idle" /\ pc' = "prepared" /\ ~request'.reset
              /\ ~get_session(request'.session_id).exists)
           => conversation_history' = conversation_history
        /\ (pc = "prepared" /\ pc' = "loop" /\ ~request.reset
              /\ conversation_history # <<>>)
           => conversation_history'
                 = Append(conversation_history, UserMessage(EnhancedPrompt))
        /\ (pc = "returned" /\ pc' = "idle")
           => /\ reply'.session_id \in SessionIds
              /\ sessions'[reply'.session_id]
                    = [exists |-> TRUE,
                       messages |-> SessionMessages(conversation_history)] ]_vars

\* the first chat was stored as s1 with its two messages; the second came
\* without a stored session and without reset, and its session s2 holds
\* the messages of both
C37_Witness ==
    /\ pc = "idle"
    /\ runs = 2
    /\ reply = [type |-> "response", session_id |-> "s2"]
    /\ sessions["s1"].exists
    /\ UserCount(sessions["s1"].messages) = 1
    /\ sessions["s2"].exists
    /\ UserCount(sessions["s2"].messages) = 2

\* C38: a save for a supplied session id nothing is stored under creates a
\* session under a new id: nothing is stored under the supplied id, and
\* the chat result reports the new id
C38_UnknownIdGetsNewSession ==
    [][ (/\ pc = "returned"
         /\ pc' = "idle"
         /\ request.session_id # NoSession
         /\ ~get_session(request.session_id).exists)
           => /\ reply'.type = "response"
              /\ reply'.session_id # request.session_id
              /\ reply'.session_id \in SessionIds
              /\ ~sessions[reply'.session_id].exists
              /\ sessions'[reply'.session_id].exists
              /\ ~sessions'[request.session_id].exists ]_vars

\* the only chat so far was answered under the new id s2 and nothing is
\* stored under s1: a request without an id is given the first unused id,
\* s1, so this one came with the id s1
C38_Witness ==
    /\ pc = "idle"
    /\ runs = 1
    /\ reply = [type |-> "response", session_id |-> "s2"]
    /\ sessions["s2"].exists
    /\ ~sessions["s1"].exists
    /\ SavedId(NoSession) = "s1"

\* C39: the run made again after a corrupted-conversation failure starts
\* from an empty conversation (system message, user message), and the
\* save that follows it replaces the messages stored under the request's
\* session id by the messages of that run alone
C39_RetryReplacesStoredSession ==
    [][ /\ (pc = "prepared" /\ request.retried /\ pc' = "loop")
           => conversation_history' = <<SystemMessage, UserMessage(EnhancedPrompt)>>
        /\ (pc = "returned" /\ request.retried /\ pc' = "idle"
              /\ get_session(request.session_id).exists)
           => /\ reply'.session_id = request.session_id
              /\ sessions'[request.session_id].messages
                    = SessionMessages(conversation_history)
              /\ UserCount(SessionMessages(conversation_history)) <= 1
              /\ RunStart(conversation_history) <= 2 ]_vars

\* the retried run of a stream request for s1 has returned with the tool
\* call it made; s1 still holds the two messages of the earlier chat, which
\* the save is about to replace
C39_Witness ==
    /\ pc = "returned"
    /\ request.retried
    /\ request.session_id = "s1"
    /\ sessions["s1"].exists
    /\ Len(sessions["s1"].messages) = 2
    /\ UserCount(conversation_history) = 1
    /\ Len(tools_used) = 1

(***************************************************************************)
(* Claims about post-processing, checked under SpecPost                    *)
(***************************************************************************)
\* C24: post-processing is idempotent: the chart, table and SQL/plan rules
\* applied to their own result with the same tool trace change nothing
C24_PostProcessIdempotent ==
    post_stage = 2 => post_twice = post_once

\* all three rules have fired on an answer of plain text: chart block, SQL
\* block, plan marker and table were added, and the second application
\* has been made
C24_Witness ==
    /\ post_stage = 2
    /\ post_answer = <<Piece("text", "t")>>
    /\ HasPiece(post_once, "chart")
    /\ HasPiece(post_once, "table")
    /\ HasPiece(post_once, "sql")
    /\ HasPiece(post_once, "plan")

\* the last call of the trace that carries a sql argument
LastSqlBearing(trace) ==
    Largest({i \in 1..Len(trace) : trace[i].name \in {"duckdb_query", "duckdb_chart"}})

\* C30: after a run whose tool trace has a query or chart call, the final
\* answer holds a fenced SQL block, and when the model's answer had none
\* the block in front is the sql argument of the last query or chart call
C30_SqlBlockOfLastSqlCall ==
    (post_stage >= 1
        /\ \E i \in 1..Len(post_trace) :
              post_trace[i].name \in {"duckdb_query", "duckdb_chart"})
       => /\ HasPiece(post_once, "sql")
          /\ ~HasPiece(post_answer, "sql")
                => post_once[FirstPiece(post_once, "sql")].body
                      = post_trace[LastSqlBearing(post_trace)].sql

\* C31: when the chart tool was called in the run and the model's answer
\* has no chart block, the chart JSON put in front of the answer is the
\* result of a chart call of this run; chart data an earlier run left in
\* the history is never injected
C31_ChartJsonOfThisRun ==
    (/\ post_stage >= 1
     /\ \E i \in 1..Len(post_trace) : post_trace[i].name = "duckdb_chart"
     /\ ~HasPiece(post_answer, "chart")
     /\ HasPiece(post_once, "chart"))
       => \E i \in 1..Len(post_trace) :
              /\ post_trace[i].name = "duckdb_chart"
              /\ post_trace[i].ok
              /\ post_once[FirstPiece(post_once, "chart")].body = post_trace[i].sql

\* the duckdb_query call of the run with the most data rows, the later one
\* on a tie
LargestQueryOfRun(trace) ==
    CHOOSE i \in 1..Len(trace) :
        /\ trace[i].name = "duckdb_query"
        /\ \A j \in 1..Len(trace) :
              trace[j].name = "duckdb_query"
                 => \/ trace[j].rows < trace[i].rows
                    \/ trace[j].rows = trace[i].rows /\ j <= i

\* C32: when the query tool was called in the run and the answer does not
\* hold the table already, the table of the run's query result with the
\* most rows (the later one on a tie) is appended at the end of the answer
C32_TableOfLargestQueryOfRun ==
    (/\ post_stage >= 1
     /\ \E i \in 1..Len(post_trace) : post_trace[i].name = "duckdb_query")
       => LET best == post_trace[LargestQueryOfRun(post_trace)]
          IN  (best.rows > 0 /\ Piece("table", best.sql) \notin Range(post_answer))
                 => /\ Len(post_once) > 0
                    /\ post_once[Len(post_once)] = Piece("table", best.sql)

(***************************************************************************)
(* Claim about the stored user message, checked under SpecPersist          *)
(***************************************************************************)
\* C22: the user message is stored without the "[Context: ...]" prefix:
\* the text stored is the text the user sent (with the text of the
\* uploaded file), for plain and for multimodal messages, with and
\* without project instructions in the prefix
C22_StoredMessageIsWhatUserSent ==
    persist_stage = 2 => persist_stored.text = SentText(persist_input)

(***************************************************************************)
(* Claim about the event stream, checked under SpecStream                  *)
(***************************************************************************)
StatusesOf(evs) == SelectSeq(evs, LAMBDA e : e.type = "status")
TerminalsOf(evs) == SelectSeq(evs, LAMBDA e : e.type \in {"response", "error"})

C2_ChatRunsNeverOverlap ==
    Cardinality({r \in threads : op[r] \in LockedOps}) <= 1

\* C3: current_database is written only by a task that holds
\* _agent_run_lock, and never while another request's agent.run executes
C3_PointerWrittenUnderRunLock ==
    pointer_write.locked /\ ~pointer_write.during_run

\* C4: conversation_history is written (agent.run invoked, or the list
\* assigned or appended to) only by a task that holds _agent_run_lock
C4_BufferWrittenUnderRunLock ==
    buffer_write.locked

\* C11: a streaming chat run is bounded by the execution timeout: no
\* streaming request is still awaiting its engine run after more than
\* execution_timeout has elapsed since the run was started
C11_StreamRunBounded ==
    \A r \in Reqs :
        (op[r] = "run_chat_stream" /\ at[r] \in {"awaiting", "retrying"} /\ r \in threads)
            => clock[r] <= ExecutionTimeout

\* C20: the two lock domains are independent: whoever holds
\* _agent_run_lock, a new operation guarded by _query_lock alone can take
\* that lock when it is free and can complete once it has it; whoever holds
\* _query_lock, a new chat request can take _agent_run_lock when it is free
C20_LockDomainsIndependent ==
    \A r \in Reqs :
        /\ (at[r] = "new" /\ query_lock = Free) => ENABLED QueryStart(r)
        /\ (at[r] = "querying" /\ op[r] = "run_sql") => ENABLED QueryFinish(r)
        /\ (at[r] = "new" /\ agent_run_lock = Free)
              => ENABLED LockedStart(r, "run_chat", "p1")

\* a query operation has completed while a chat run held _agent_run_lock
\* throughout, and a chat run was started while _query_lock was held
C20_Witness ==
    \E r \in Reqs, q \in Reqs :
        /\ agent_run_lock = r
        /\ op[r] \in LockedOps
        /\ r \in threads
        /\ op[q] = "run_sql"
        /\ at[q] = "querying"
        /\ query_lock = q

\* a step the task r can take without acquiring a lock
HolderStep(r) ==
    \/ \E how \in {"returned", "corrupted", "failed"} : ThreadEnds(r, how)
    \/ LockedFinish(r)
    \/ StreamRetryStart(r)
    \/ StreamFinish(r)
    \/ StreamFails(r)
    \/ StreamTimeout(r)
    \/ RunAfterSampling(r)
    \/ UnlockedFinish(r)
    \/ QueryFinish(r)

\* C40: a task takes _query_lock or _agent_run_lock only while it holds
\* neither of them, so no task ever holds both, and a task that holds one
\* can always go on without waiting for a lock: the requests cannot
\* deadlock on the two locks
C40_NoNestedLockNoDeadlock ==
    /\ [](\A r \in Reqs :
            /\ ~(agent_run_lock = r /\ query_lock = r)
            /\ (agent_run_lock = r \/ query_lock = r) => ENABLED HolderStep(r))
    /\ [][\A r \in Reqs :
            \/ (agent_run_lock' = r /\ agent_run_lock # r)
            \/ (query_lock' = r /\ query_lock # r)
            => agent_run_lock # r /\ query_lock # r]_vars

\* enrich_table_from_file holds _query_lock with its agent.run in a worker
\* thread while a chat request holds _agent_run_lock with its own
C40_Witness ==
    \E r \in Reqs, q \in Reqs :
        /\ op[q] = "enrich_table_from_file"
        /\ query_lock = q
        /\ q \in threads
        /\ op[r] \in ChatKinds
        /\ agent_run_lock = r
        /\ r \in threads

(***************************************************************************)
(* Claims about the session store, checked under SpecStore                 *)
(***************************************************************************)
\* C33: a save of an existing session keeps its id and created_at, and the
\* message list stored afterwards is the list given, whatever was stored
C33_SaveKeepsIdAndCreation ==
    [][ (last_save'.n = last_save.n + 1 /\ last_save'.existing)
           => /\ last_save'.id = last_save'.supplied
              /\ files[last_save'.id].exists
              /\ files'[last_save'.id].exists
              /\ files'[last_save'.id].id = files[last_save'.id].id
              /\ files'[last_save'.id].created_at = files[last_save'.id].created_at
              /\ files'[last_save'.id].messages = last_save'.messages ]_vars

\* a session created at time 0 has been saved twice more after the time
\* moved on, the last time with a list shorter than the stored one could be
C33_Witness ==
    /\ last_save.n = MaxSaves
    /\ last_save.existing
    /\ time > 0
    /\ files[last_save.id].created_at = 0
    /\ files[last_save.id].messages = Conversation(1, "question")

\* C34: on a save of an existing session the title is made again when the
\* list saved has a positive multiple of 5 user messages or the stored
\* title is the placeholder, and is left as it is otherwise
C34_TitleRegeneratedEveryFifth ==
    [][ (last_save'.n = last_save.n + 1 /\ last_save'.existing)
           => LET users == user_msg_count(last_save'.messages)
                  due == \/ users > 0 /\ users % 5 = 0
                         \/ files[last_save'.id].description = Placeholder
              IN  /\ last_save'.generated <=> due
                  /\ ~due => files'[last_save'.id].description
                                = files[last_save'.id].description ]_vars

====
